---- MODULE Spec2Model ----
(***************************************************************************)
(* A model of the llmgateway request path: the response normaliser         *)
(* (transformResponseToOpenai), the gateway-owned credential lookup        *)
(* (getProviderEnv), the Redis log queue (publishToQueue /                 *)
(* consumeFromQueue) and the dispatch engine that calls them (precheck,    *)
(* attempt loop, streaming, log enqueue); and of the billing side: the two *)
(* calculateFees functions, the payment-method routes, the credit ledger,  *)
(* the single-flight cache, the model listing, the admin endpoints and the *)
(* Paystack webhook, top-up routes and charge records.                     *)
(***************************************************************************)
EXTENDS Integers, Sequences, FiniteSets, TLC

VARIABLES
    tArgs,      \* the arguments of one transformResponseToOpenai call
    tResp,      \* its return value (NotCalled before the call)
    eProvider,  \* the argument of one getProviderEnv call
    env,        \* process.env: variable name -> value (Unset when absent)
    eResult,    \* its outcome: returned token or thrown HTTPException
    queue,      \* the Redis list LOG_QUEUE, head first
    pubCall,    \* the outcome of the last publishToQueue call
    returned,   \* records whose publishToQueue call returned normally
    threw,      \* records whose publishToQueue call threw to the caller
    pushed,     \* records that Redis appended to the list (LPUSH applied)
    batch,      \* records held in the consumer's memory after consumeFromQueue
    store,      \* records written to the durable log store
    crashes,    \* number of consumer crashes so far
    dCands,     \* the ordered candidate providers of one dispatched request
    dIdx,       \* index of the candidate being attempted
    dPhase,     \* position in the attempt loop
    dToken,     \* the credential resolved for the current candidate
    dCalls,     \* the upstream calls made: sequence of [provider, token, result]
    dSkipped,   \* the candidates skipped for lack of a credential
    dOutcome,   \* the outcome of the request (Pending while in the loop)
    dStream,    \* whether the request asked for a streamed response
    dBalance,   \* the credit balance of the organization at the precheck
    dTries,     \* the attempts made on the current candidate
    dSent,      \* the delta frames delivered to the client
    dFrame,     \* the frame that closed the stream: done or error
    dStatus,    \* the HTTP status sent to the client (0 while none is)
    dLog,       \* the publishToQueue calls of the request, with their outcome
    fArgs,      \* the input of one calculateFees call
    fOut,       \* its FeeBreakdown, with the module whose function was called
    pMethods,   \* the payment_method table: id -> row
    pReply,     \* the last request to a payments route and its response
    pCount,     \* the number of requests served by the payments routes
    mCatalog,   \* the model catalog: id -> deactivation / deprecation times
    mNow,       \* the time at which GET /v1/models is served
    mQuery,     \* the query parameters of the request
    mResp,      \* the data array of the response (a set of model ids)
    lBalance,   \* the ledger: organization -> credit balance
    lDebited,   \* the ledger: the <<organization, request id>> pairs debited
    lOpening,   \* the balances before any debit
    lCost,      \* the computed cost of each request id
    lCalls,     \* each task's debit call: position, arguments, result
    cCache,     \* the response cache: key -> stored value (NoValue when absent)
    cCell,      \* the single-flight cell of each key: the filling caller or 0
    cFills,     \* how often the filler of each key was started
    cFailed,    \* how often the filler of each key failed
    cCallers,   \* each getOrCompute caller: position, key, role, result
    aEnv,       \* process.env.ADMIN_EMAILS: unset, or a string
    aUser,      \* c.get("user") of one admin request: absent, or its email
    aReply,     \* the endpoint that served the request and its response
    kConfig,    \* process.env: the two Paystack secrets
    kTx,        \* the transaction table: id -> row
    kCredits,   \* organization.credits: organization -> mills
    kMethods,   \* the payment_method table: id -> row
    kGrants,    \* the credit additions committed for each transaction id
    kLock,      \* the request holding each transaction row (0: none)
    kProcs      \* the requests: handler, position, arguments, response

tVars == <<tArgs, tResp>>
eVars == <<eProvider, eResult>>
qVars == <<queue, pubCall, returned, threw, pushed, batch, store, crashes>>
dVars == <<dCands, dIdx, dPhase, dToken, dCalls, dSkipped, dOutcome, dStream,
          dBalance, dTries, dSent, dFrame, dStatus, dLog>>
fVars == <<fArgs, fOut>>
\* the variables of the components other than the four above
pVars == <<pMethods, pReply, pCount>>
mVars == <<mCatalog, mNow, mQuery, mResp>>
lVars == <<lBalance, lDebited, lOpening, lCost, lCalls>>
cVars == <<cCache, cCell, cFills, cFailed, cCallers>>
aVars == <<aEnv, aUser, aReply>>
\* the variables of the admin and Paystack components
kVars == <<kConfig, kTx, kCredits, kMethods, kGrants, kLock, kProcs>>
zVars == <<aVars, kVars>>
\* the variables outside the Paystack component
oVars == <<env, tVars, eVars, qVars, dVars, fVars, pVars, mVars, lVars, cVars,
          aVars>>
nVars == <<fVars, pVars, mVars, lVars, cVars, zVars>>
vars == <<tArgs, tResp, eProvider, env, eResult, queue, pubCall, returned,
          threw, pushed, batch, store, crashes, dCands, dIdx, dPhase, dToken,
          dCalls, dSkipped, dOutcome, dStream, dBalance, dTries, dSent, dFrame,
          dStatus, dLog, fArgs, fOut, pMethods, pReply,
          pCount, mCatalog, mNow, mQuery, mResp, lBalance, lDebited,
          lOpening, lCost, lCalls, cCache, cCell, cFills, cFailed, cCallers,
          aEnv, aUser, aReply, kConfig, kTx, kCredits, kMethods, kGrants,
          kLock, kProcs>>

----------------------------------------------------------------------------
(* Bounds of the model.                                                    *)

\* token counts range over null and 0..MaxTok
MaxTok == 2
\* log records are numbered 1..MaxRec
MaxRec == 3
\* the consumer crashes at most MaxCrash times in a run
MaxCrash == 1
\* a request has at most MaxCands candidates
MaxCands == 2

----------------------------------------------------------------------------
(* JavaScript values.                                                      *)

\* null in a string-typed slot
NULL == "<null>"
\* a number | null slot is the empty set (null) or a singleton {n}
NullNum == {}
Num(n) == {n}
IsNull(x) == x = {}
Val(x) == CHOOSE v \in x : TRUE
\* x || d on a number | null: null and 0 are falsy
OrNum(x, d) == IF IsNull(x) \/ Val(x) = 0 THEN d ELSE Val(x)
\* x ?? d on a number | null
Coalesce(x, d) == IF IsNull(x) THEN d ELSE Val(x)
\* s || d on a string | null: null and "" are falsy
OrStr(s, d) == IF s = NULL \/ s = "" THEN d ELSE s
\* Math.max
Max(a, b) == IF a >= b THEN a ELSE b
\* property presence, assignment and delete on an object
Has(obj, f) == f \in DOMAIN obj
SetField(obj, f, v) == [k \in DOMAIN obj \cup {f} |-> IF k = f THEN v ELSE obj[k]]
DeleteField(obj, f) == [k \in DOMAIN obj \ {f} |-> obj[k]]
\* ...(cond && {f: v}) inside an object literal
Spread(cond, f, v) == IF cond THEN [k \in {f} |-> v] ELSE <<>>

----------------------------------------------------------------------------
(* transformResponseToOpenai.                                              *)

\* `${usedProvider}/${baseModelName}`
ModelName(usedProvider, baseModelName) == <<usedProvider, "/", baseModelName>>

\* `chatcmpl-${Date.now()}`
FreshId(now) == <<"chatcmpl-", now>>

\* a metadata object that reports the upstream model name as used_model
MetadataSwapsUsedModel(a) ==
    [ requested_model       |-> a.requestedModel,
      requested_provider    |-> a.requestedProvider,
      used_model            |-> a.usedModel,
      used_provider         |-> a.usedProvider,
      underlying_used_model |-> a.usedModel ]

\* the metadata object every branch writes
Metadata(a) ==
    [ requested_model       |-> a.requestedModel,
      requested_provider    |-> a.requestedProvider,
      used_model            |-> a.baseModelName,
      used_provider         |-> a.usedProvider,
      underlying_used_model |-> a.usedModel ]

\* (promptTokens || 0) + (completionTokens || 0) + (reasoningTokens || 0)
FallbackTotal(a) ==
    OrNum(a.promptTokens, 0) + OrNum(a.completionTokens, 0)
        + OrNum(a.reasoningTokens, 0)

\* prompt_tokens: Math.max(1, promptTokens || 1)
PromptTokensOut(a) == Max(1, OrNum(a.promptTokens, 1))

\* total_tokens: Math.max(1, totalTokens ?? fallbackTotal)
TotalTokensOut(a) == Max(1, Coalesce(a.totalTokens, FallbackTotal(a)))

\* the usage object of the branches that build a response; withCached is
\* FALSE for the inference.net / together.ai / groq branch, which has no
\* prompt_tokens_details spread
BuiltUsage(a, withCached) ==
    [ prompt_tokens     |-> PromptTokensOut(a),
      completion_tokens |-> OrNum(a.completionTokens, 0),
      total_tokens      |-> TotalTokensOut(a) ]
    @@ Spread(~IsNull(a.reasoningTokens), "reasoning_tokens",
              Coalesce(a.reasoningTokens, 0))
    @@ Spread(withCached /\ ~IsNull(a.cachedTokens), "prompt_tokens_details",
              [cached_tokens |-> Coalesce(a.cachedTokens, 0)])

\* the message object of the branches that build a response
BuiltMessage(a, withTools, withImages) ==
    [ role |-> "assistant", content |-> a.content ]
    @@ Spread(a.reasoningContent # NULL, "reasoning", a.reasoningContent)
    @@ Spread(withTools /\ a.toolResults # NULL, "tool_calls", a.toolResults)
    @@ Spread(withImages /\ Len(a.images) > 0, "images", a.images)

\* a finish_reason conditional that lost its max_tokens case
AnthropicFinishReasonNoLength(finishReason) ==
    IF finishReason = "end_turn" THEN "stop"
    ELSE IF finishReason = "tool_use" THEN "tool_calls"
    ELSE "stop"

\* the anthropic branch's finish_reason conditional
AnthropicFinishReason(finishReason) ==
    IF finishReason = "end_turn" THEN "stop"
    ELSE IF finishReason = "tool_use" THEN "tool_calls"
    ELSE IF finishReason = "max_tokens" THEN "length"
    ELSE "stop"

\* finishReason || "stop"
DefaultFinishReason(finishReason) == OrStr(finishReason, "stop")

\* a response object built from the extracted arguments
BuiltResponse(a, id, created, message, finish, usage) ==
    [ id       |-> id,
      object   |-> "chat.completion",
      created  |-> created,
      model    |-> ModelName(a.usedProvider, a.baseModelName),
      choices  |-> << [ index |-> 0, message |-> message,
                        finish_reason |-> finish ] >>,
      usage    |-> usage,
      metadata |-> Metadata(a) ]

\* transformedResponse.choices?.[0]?.message is truthy
HasFirstMessage(json) ==
    /\ Has(json, "choices")
    /\ Len(json.choices) > 0
    /\ Has(json.choices[1], "message")

\* message.reasoning = reasoningContent; delete message.reasoning_content
\* on choices[0].message, when reasoningContent !== null
WithReasoning(json, reasoningContent) ==
    IF HasFirstMessage(json) /\ reasoningContent # NULL
    THEN SetField(json, "choices",
            [ json.choices EXCEPT ![1] =
                SetField(@, "message",
                    DeleteField(SetField(@.message, "reasoning",
                                         reasoningContent),
                                "reasoning_content")) ])
    ELSE json

\* transformedResponse.model = ...; transformedResponse.metadata = {...}
WithModelAndMetadata(json, a) ==
    SetField(SetField(json, "model",
                      ModelName(a.usedProvider, a.baseModelName)),
             "metadata", Metadata(a))

GoogleBranch(a) ==
    BuiltResponse(a, FreshId(a.now), a.now \div 1000,
                  BuiltMessage(a, TRUE, TRUE),
                  DefaultFinishReason(a.finishReason), BuiltUsage(a, TRUE))

AnthropicBranch(a) ==
    BuiltResponse(a, FreshId(a.now), a.now \div 1000,
                  BuiltMessage(a, TRUE, FALSE),
                  AnthropicFinishReason(a.finishReason), BuiltUsage(a, TRUE))

\* inference.net, together.ai, groq
GroqBranch(a) ==
    IF ~Has(a.json, "id") \/ a.json.id = <<>>
    THEN BuiltResponse(a, FreshId(a.now), a.now \div 1000,
                       BuiltMessage(a, FALSE, FALSE),
                       DefaultFinishReason(a.finishReason),
                       BuiltUsage(a, FALSE))
    ELSE WithModelAndMetadata(WithReasoning(a.json, a.reasoningContent), a)

BedrockBranch(a) ==
    BuiltResponse(a, FreshId(a.now), a.now \div 1000,
                  BuiltMessage(a, TRUE, FALSE),
                  DefaultFinishReason(a.finishReason), BuiltUsage(a, TRUE))

\* an openai branch that rewrites the reasoning field of a chat-completions
\* payload as the default branch does
OpenaiBranchRewritesReasoning(a) ==
    WithModelAndMetadata(WithReasoning(a.json, a.reasoningContent), a)

\* openai: the responses-endpoint shape is rebuilt, the chat-completions
\* shape only gets model and metadata
OpenaiBranch(a) ==
    IF Has(a.json, "output")
    THEN BuiltResponse(a,
            IF Has(a.json, "id") /\ a.json.id # <<>>
                THEN a.json.id ELSE FreshId(a.now),
            IF Has(a.json, "created_at") /\ a.json.created_at # 0
                THEN a.json.created_at ELSE a.now \div 1000,
            BuiltMessage(a, TRUE, FALSE),
            DefaultFinishReason(a.finishReason), BuiltUsage(a, TRUE))
    ELSE WithModelAndMetadata(a.json, a)

\* any other provider
DefaultBranch(a) ==
    WithModelAndMetadata(WithReasoning(a.json, a.reasoningContent), a)

transformResponseToOpenai(a) ==
    CASE a.usedProvider \in {"google-ai-studio", "google-vertex"} ->
            GoogleBranch(a)
      [] a.usedProvider = "anthropic" -> AnthropicBranch(a)
      [] a.usedProvider \in {"inference.net", "together.ai", "groq"} ->
            GroqBranch(a)
      [] a.usedProvider = "aws-bedrock" -> BedrockBranch(a)
      [] a.usedProvider = "openai" -> OpenaiBranch(a)
      [] OTHER -> DefaultBranch(a)

----------------------------------------------------------------------------
(* The inputs of transformResponseToOpenai.                                *)

Providers ==
    { "google-ai-studio", "google-vertex", "anthropic", "inference.net",
      "together.ai", "groq", "aws-bedrock", "openai", "mistral" }

\* upstream finish reasons: null, empty, anthropic's, openai's, google's
FinishReasons ==
    { NULL, "", "end_turn", "tool_use", "max_tokens", "length", "MAX_TOKENS" }

TokenCounts == { NullNum } \cup { Num(n) : n \in 0..MaxTok }

UpstreamMessage == [ role |-> "assistant", content |-> "hello" ]

UpstreamChoice(message, finish) ==
    [ index |-> 0, message |-> message, finish_reason |-> finish ]

\* a chat-completions payload as received from an OpenAI-compatible upstream
ChatCompletion(choices) ==
    [ id |-> <<"x">>, object |-> "chat.completion", model |-> <<"gpt-4o">>,
      choices |-> choices ]

\* upstream JSON objects: the happy-path payload of an OpenAI-compatible
\* upstream, the same with zero usage, without total_tokens, without usage,
\* with reasoning_content and an unknown finish reason, without an id, the
\* responses-endpoint shape with and without an id, and a bare object
JsonPayloads ==
    { ChatCompletion(<<UpstreamChoice(UpstreamMessage, "stop")>>)
        @@ [ usage |-> [ prompt_tokens |-> 5, completion_tokens |-> 1,
                         total_tokens |-> 6 ] ],
      ChatCompletion(<<UpstreamChoice(UpstreamMessage, "stop")>>)
        @@ [ usage |-> [ prompt_tokens |-> 0, completion_tokens |-> 0,
                         total_tokens |-> 0 ] ],
      ChatCompletion(<<UpstreamChoice(UpstreamMessage, "length")>>)
        @@ [ usage |-> [ prompt_tokens |-> 2, completion_tokens |-> 3 ] ],
      ChatCompletion(
        <<UpstreamChoice(UpstreamMessage @@ [ reasoning_content |-> "think" ],
                         "eos")>>),
      [ object |-> "chat.completion",
        choices |-> <<UpstreamChoice(UpstreamMessage, "stop")>> ],
      [ id |-> <<"resp_1">>, object |-> "response", created_at |-> 7,
        output |-> <<"message">> ],
      [ object |-> "response", output |-> <<"message">> ],
      [ object |-> "unknown" ] }

\* the remaining arguments vary together: all absent, or all present
Extras ==
    { [ reasoningContent |-> NULL, cachedTokens |-> NullNum,
        toolResults |-> NULL, images |-> <<>>, requestedProvider |-> NULL ],
      [ reasoningContent |-> "because", cachedTokens |-> Num(1),
        toolResults |-> "tool_calls[1]", images |-> <<"image_1">>,
        requestedProvider |-> "anthropic" ] }

\* Date.now() in milliseconds
Clock == { 2500 }

\* the argument list of one call
TransformArgs(p, j, f, pt, ct, tt, rt, n, x) ==
    [ usedProvider |-> p, usedModel |-> "upstream-model-v1", json |-> j,
      content |-> "hello", finishReason |-> f,
      promptTokens |-> pt, completionTokens |-> ct, totalTokens |-> tt,
      reasoningTokens |-> rt, now |-> n,
      requestedModel |-> "auto", baseModelName |-> "base-model" ] @@ x

\* no call made yet
NoArgs == [ usedProvider |-> "<none>" ]

TransformIdle == tArgs = NoArgs /\ tResp = <<>>

\* one call of transformResponseToOpenai on the chosen arguments
Transform ==
    /\ tArgs # NoArgs
    /\ tResp = <<>>
    /\ tResp' = << transformResponseToOpenai(tArgs) >>
    /\ UNCHANGED <<tArgs, env, eVars, qVars, dVars, nVars>>

----------------------------------------------------------------------------
(* getProviderEnv.                                                         *)

\* process.env[name] when the variable is not set
Unset == "<undefined>"

\* providers of the credential lookup; "custom" has no gateway-owned key
EnvProviders == { "openai", "anthropic", "azure", "custom" }

\* getProviderEnvVar of @llmgateway/models: the provider-specific variable
\* holding the gateway-owned key, undefined for a provider that has none
getProviderEnvVar(provider) ==
    CASE provider = "openai" -> "LLM_OPENAI_API_KEY"
      [] provider = "anthropic" -> "LLM_ANTHROPIC_API_KEY"
      [] provider = "azure" -> "LLM_AZURE_API_KEY"
      [] OTHER -> Unset

EnvVarNames ==
    { "LLM_OPENAI_API_KEY", "LLM_ANTHROPIC_API_KEY", "LLM_AZURE_API_KEY",
      "LLM_AZURE_RESOURCE" }

\* the value a deployment sets a variable to
SecretOf(name) ==
    CASE name = "LLM_OPENAI_API_KEY" -> "sk-openai"
      [] name = "LLM_ANTHROPIC_API_KEY" -> "sk-anthropic"
      [] name = "LLM_AZURE_API_KEY" -> "azure-key"
      [] OTHER -> "my-resource"

\* a variable is unset, set to the empty string, or set to its value
Environments ==
    { e \in [ EnvVarNames -> { Unset, "", "sk-openai", "sk-anthropic",
                               "azure-key", "my-resource" } ] :
        \A name \in EnvVarNames : e[name] \in { Unset, "", SecretOf(name) } }

\* !value on string | undefined
Falsy(value) == value = Unset \/ value = ""

\* throw new HTTPException(400, { message })
HTTPException400(message) ==
    [ threw |-> TRUE, status |-> 400, message |-> message ]

ReturnToken(token) == [ threw |-> FALSE, token |-> token ]

\* a getProviderEnv without the azure resource check
getProviderEnvNoResourceCheck(usedProvider, e) ==
    LET envVar == getProviderEnvVar(usedProvider) IN
    IF Falsy(envVar)
    THEN HTTPException400("No environment variable set for provider")
    ELSE IF Falsy(e[envVar])
    THEN HTTPException400("No API key set in environment for provider")
    ELSE ReturnToken(e[envVar])

\* a getProviderEnv that only tests the key for undefined, so that an
\* empty key passes
getProviderEnvAcceptsEmptyKey(usedProvider, e) ==
    LET envVar == getProviderEnvVar(usedProvider) IN
    IF Falsy(envVar)
    THEN HTTPException400("No environment variable set for provider")
    ELSE IF e[envVar] = Unset
    THEN HTTPException400("No API key set in environment for provider")
    ELSE IF usedProvider = "azure" /\ Falsy(e["LLM_AZURE_RESOURCE"])
    THEN HTTPException400("LLM_AZURE_RESOURCE environment variable is required for Azure provider")
    ELSE ReturnToken(e[envVar])

getProviderEnv(usedProvider, e) ==
    LET envVar == getProviderEnvVar(usedProvider) IN
    IF Falsy(envVar)
    THEN HTTPException400("No environment variable set for provider")
    ELSE IF Falsy(e[envVar])
    THEN HTTPException400("No API key set in environment for provider")
    ELSE IF usedProvider = "azure" /\ Falsy(e["LLM_AZURE_RESOURCE"])
    THEN HTTPException400("LLM_AZURE_RESOURCE environment variable is required for Azure provider")
    ELSE ReturnToken(e[envVar])

\* no call made yet
NoProvider == "<none>"
NoResult == [ threw |-> FALSE ]

EnvIdle == eProvider = NoProvider /\ eResult = NoResult

\* one call of getProviderEnv on the chosen provider and environment
GetProviderEnv ==
    /\ eProvider # NoProvider
    /\ eResult = NoResult
    /\ eResult' = getProviderEnv(eProvider, env)
    /\ UNCHANGED <<eProvider, env, tVars, qVars, dVars, nVars>>

----------------------------------------------------------------------------
(* The Redis log queue: publishToQueue and consumeFromQueue.               *)

\* log records are identified by their request id
Records == 1..MaxRec

\* the count argument of redisClient.lpop(queue, 10)
PopCount == 10

Range(seq) == { seq[i] : i \in 1..Len(seq) }

Min(a, b) == IF a <= b THEN a ELSE b

\* JSON.stringify(message)
JSONStringify(message) == [ json |-> message ]

\* JSON.parse(text), by the consumer
JSONParse(text) == text.json

\* LPUSH: insert at the head of the list
lpush(list, value) == <<value>> \o list

\* LPOP key count: the first count elements, null when the list is empty
lpopResult(list, count) == SubSeq(list, 1, Min(count, Len(list)))
lpopRest(list, count) == SubSeq(list, Min(count, Len(list)) + 1, Len(list))

\* a publishToQueue whose catch logs the error and does not rethrow it
publishToQueueSwallowsError(list, message, redisOk) ==
    IF redisOk
    THEN [ outcome |-> "returned", list |-> lpush(list, JSONStringify(message)) ]
    ELSE [ outcome |-> "returned", list |-> list ]

\* publishToQueue: lpush inside try; the catch logs and rethrows
publishToQueue(list, message, redisOk) ==
    IF redisOk
    THEN [ outcome |-> "returned", list |-> lpush(list, JSONStringify(message)) ]
    ELSE [ outcome |-> "threw", list |-> list ]

\* consumeFromQueue: lpop inside try; null for an empty result; the catch
\* logs and rethrows
consumeFromQueue(list, redisOk) ==
    IF ~redisOk
    THEN [ outcome |-> "threw", result |-> <<>>, list |-> list ]
    ELSE IF Len(list) = 0
    THEN [ outcome |-> "null", result |-> <<>>, list |-> list ]
    ELSE [ outcome |-> "returned", result |-> lpopResult(list, PopCount),
           list |-> lpopRest(list, PopCount) ]

NoCall == [ outcome |-> "<none>" ]

QueueIdle ==
    /\ queue = <<>>
    /\ pubCall = NoCall
    /\ returned = {}
    /\ threw = {}
    /\ pushed = {}
    /\ batch = <<>>
    /\ store = {}
    /\ crashes = 0

\* the gateway enqueues the log record of request r; Redis accepts the
\* command or fails it
PublishToQueue(r) ==
    /\ r \notin returned \cup threw
    /\ \E redisOk \in BOOLEAN :
        LET res == publishToQueue(queue, r, redisOk) IN
        /\ queue' = res.list
        /\ pubCall' = [ outcome |-> res.outcome, message |-> r ]
        /\ returned' = IF res.outcome = "returned" THEN returned \cup {r}
                       ELSE returned
        /\ threw' = IF res.outcome = "threw" THEN threw \cup {r} ELSE threw
        /\ pushed' = pushed \cup { JSONParse(t) : t \in Range(res.list) }
    /\ UNCHANGED <<batch, store, crashes, env, tVars, eVars, dVars, nVars>>

\* the consumer polls the queue; what consumeFromQueue returns lives in the
\* consumer's memory until it is written
ConsumeFromQueue ==
    /\ batch = <<>>
    /\ \E redisOk \in BOOLEAN :
        LET res == consumeFromQueue(queue, redisOk) IN
        /\ queue' = res.list
        /\ batch' = res.result
    /\ UNCHANGED <<pubCall, returned, threw, pushed, store, crashes, env,
                   tVars, eVars, dVars, nVars>>

\* the consumer writes the records it holds to the durable store
PersistBatch ==
    /\ batch # <<>>
    /\ store' = store \cup { JSONParse(t) : t \in Range(batch) }
    /\ batch' = <<>>
    /\ UNCHANGED <<queue, pubCall, returned, threw, pushed, crashes, env,
                   tVars, eVars, dVars, nVars>>

\* the consumer process dies and restarts: its memory is gone, Redis and
\* the durable store keep what they hold
CrashConsumer ==
    /\ crashes < MaxCrash
    /\ crashes' = crashes + 1
    /\ batch' = <<>>
    /\ UNCHANGED <<queue, pubCall, returned, threw, pushed, store, env,
                   tVars, eVars, dVars, nVars>>

----------------------------------------------------------------------------
(* The dispatch engine: credit precheck, the attempt loop over the         *)
(* candidate providers, the streaming path and the log enqueue.            *)

\* a candidate is attempted at most MaxAttempts times (the N of the retry
\* policy)
MaxAttempts == 2
\* a stream relays at most MaxFrames delta frames
MaxFrames == 2

Pending == "pending"

\* ordered candidate lists without repetition, at most MaxCands long
CandidateLists ==
    { c \in UNION { [ 1..n -> EnvProviders ] : n \in 1..MaxCands } :
        \A i, j \in 1..Len(c) : i # j => c[i] # c[j] }

\* what an upstream call can answer: success, a retryable transient
\* failure, a rejected key, a 400 on the request the gateway built
UpstreamResults == { "ok", "transient", "auth", "bad_request" }

\* the upper-bound cost estimate of the request
CostEstimate == 1

\* a precheck that lets every request through
precheckAlwaysPasses(balance, estimate) == TRUE

\* step 4: the balance covers the estimate
precheck(balance, estimate) == balance >= estimate

\* step 5.3, Transient: retry the same candidate up to MaxAttempts attempts
\* in all, then advance
afterTransient(tries) == IF tries < MaxAttempts THEN "retry" ELSE "advance"

\* a stream policy that treats an abort as any transient failure
afterStreamAbortIgnoresDelivery(sent) == "retry"

\* step 5.4, streaming path: an abort is retried or advanced only while
\* nothing has been delivered; afterwards the request is sealed
afterStreamAbort(sent) == IF sent = 0 THEN "retry" ELSE "seal"

\* a log record that keeps the last attempt only
attemptChainLastOnly(calls) ==
    IF calls = <<>> THEN <<>> ELSE << calls[Len(calls)] >>

\* the attempt chain of the log record: every attempt, in order
attemptChain(calls) == calls

\* the LogRecord of a finished request
LogRecord(outcome, status, calls, sent) ==
    [ outcome |-> outcome, status |-> status,
      attempts |-> attemptChain(calls), delivered |-> sent ]

DispatchIdle ==
    /\ dCands = <<>>
    /\ dIdx = 0
    /\ dPhase = "idle"
    /\ dToken = Unset
    /\ dCalls = <<>>
    /\ dSkipped = {}
    /\ dOutcome = Pending
    /\ dStream = FALSE
    /\ dBalance = 0
    /\ dTries = 0
    /\ dSent = 0
    /\ dFrame = "<none>"
    /\ dStatus = 0
    /\ dLog = <<>>

\* the variables of the log queue harness that the engine does not touch
qRest == <<pubCall, returned, threw, pushed, batch, store, crashes>>

\* the request ends with this outcome and status; what is left is its log
Finish(outcome, status) ==
    /\ dOutcome' = outcome
    /\ dStatus' = status
    /\ dPhase' = "log"

\* the current candidate is given up for the next one
Advance ==
    /\ dIdx' = dIdx + 1
    /\ dTries' = 0
    /\ dToken' = Unset
    /\ dPhase' = "resolve"

\* step 4: fail fast with InsufficientCredits when the precheck fails
Precheck ==
    /\ dPhase = "precheck"
    /\ IF precheck(dBalance, CostEstimate)
       THEN /\ dPhase' = "resolve"
            /\ UNCHANGED <<dOutcome, dStatus>>
       ELSE Finish("InsufficientCredits", 402)
    /\ UNCHANGED <<dCands, dIdx, dToken, dCalls, dSkipped, dStream, dBalance,
                   dTries, dSent, dFrame, dLog, env, tVars, eVars, qVars,
                   nVars>>

\* step 5.1: resolve the credential of the current candidate; a candidate
\* without one is skipped
ResolveCredential ==
    /\ dPhase = "resolve"
    /\ dIdx <= Len(dCands)
    /\ LET res == getProviderEnv(dCands[dIdx], env) IN
        IF res.threw
        THEN /\ dSkipped' = dSkipped \cup {dIdx}
             /\ dIdx' = dIdx + 1
             /\ UNCHANGED <<dPhase, dToken>>
        ELSE /\ dToken' = res.token
             /\ dPhase' = "send"
             /\ UNCHANGED <<dSkipped, dIdx>>
    /\ UNCHANGED <<dCands, dCalls, dOutcome, dStream, dBalance, dTries, dSent,
                   dFrame, dStatus, dLog, env, tVars, eVars, qVars, nVars>>

\* steps 5.2-5.4: one upstream call with the resolved credential.  Success
\* ends the loop (buffered) or opens the stream; a transient failure is
\* retried or advanced by the retry policy; a rejected key advances; a 400
\* fails the request at once
SendUpstream ==
    /\ dPhase = "send"
    /\ \E result \in UpstreamResults :
        /\ dCalls' = Append(dCalls, [ provider |-> dCands[dIdx],
                                      token |-> dToken, result |-> result,
                                      delivered |-> dSent ])
        /\ IF result = "ok"
           THEN /\ IF dStream
                   THEN /\ dPhase' = "stream"
                        /\ UNCHANGED <<dOutcome, dStatus>>
                   ELSE Finish("ok", 200)
                /\ dTries' = dTries + 1
                /\ UNCHANGED <<dIdx, dToken>>
           ELSE IF result = "transient"
           THEN /\ IF afterTransient(dTries + 1) = "retry"
                   THEN /\ dTries' = dTries + 1
                        /\ UNCHANGED <<dIdx, dToken, dPhase>>
                   ELSE Advance
                /\ UNCHANGED <<dOutcome, dStatus>>
           ELSE IF result = "auth"
           THEN /\ Advance
                /\ UNCHANGED <<dOutcome, dStatus>>
           ELSE /\ Finish("UpstreamBadRequest", 400)
                /\ UNCHANGED <<dIdx, dToken, dTries>>
    /\ UNCHANGED <<dCands, dSkipped, dStream, dBalance, dSent, dFrame, dLog,
                   env, tVars, eVars, qVars, nVars>>

\* streaming path: one more delta frame is relayed to the client
StreamDelta ==
    /\ dPhase = "stream"
    /\ dSent < MaxFrames
    /\ dSent' = dSent + 1
    /\ dStatus' = 200
    /\ UNCHANGED <<dCands, dIdx, dPhase, dToken, dCalls, dSkipped, dOutcome,
                   dStream, dBalance, dTries, dFrame, dLog, env, tVars, eVars,
                   qVars, nVars>>

\* streaming path: the terminal frame arrives and the stream is closed
\* with data: [DONE]
StreamEnd ==
    /\ dPhase = "stream"
    /\ dFrame' = "done"
    /\ Finish("ok", 200)
    /\ UNCHANGED <<dCands, dIdx, dToken, dCalls, dSkipped, dStream, dBalance,
                   dTries, dSent, dLog, env, tVars, eVars, qVars, nVars>>

\* streaming path: the upstream stream aborts with a retryable condition
StreamAbort ==
    /\ dPhase = "stream"
    /\ dCalls' = [ dCalls EXCEPT ![Len(dCalls)].result = "stream_abort" ]
    /\ IF afterStreamAbort(dSent) = "seal"
       THEN /\ dFrame' = "error"
            /\ Finish("StreamMidFlight", dStatus)
            /\ UNCHANGED <<dIdx, dToken, dTries>>
       ELSE /\ IF afterTransient(dTries) = "retry"
               THEN /\ dPhase' = "send"
                    /\ UNCHANGED <<dIdx, dToken, dTries>>
               ELSE Advance
            /\ UNCHANGED <<dFrame, dOutcome, dStatus>>
    /\ UNCHANGED <<dCands, dSkipped, dStream, dBalance, dSent, dLog, env,
                   tVars, eVars, qVars, nVars>>

\* the client goes away while the upstream call or the stream is open: the
\* upstream call is cancelled
ClientDisconnect ==
    /\ dPhase \in { "send", "stream" }
    /\ Finish("client_disconnect", dStatus)
    /\ UNCHANGED <<dCands, dIdx, dToken, dCalls, dSkipped, dStream, dBalance,
                   dTries, dSent, dFrame, dLog, env, tVars, eVars, qVars,
                   nVars>>

\* the candidate list is exhausted without a success
Exhausted ==
    /\ dPhase = "resolve"
    /\ dIdx > Len(dCands)
    /\ Finish("UpstreamUnavailable", 502)
    /\ UNCHANGED <<dCands, dIdx, dToken, dCalls, dSkipped, dStream, dBalance,
                   dTries, dSent, dFrame, dLog, env, tVars, eVars, qVars,
                   nVars>>

\* step 9: the engine hands the LogRecord of the request to publishToQueue;
\* Redis accepts the command or fails it
EnqueueLog ==
    /\ dPhase = "log"
    /\ \E redisOk \in BOOLEAN :
        LET record == LogRecord(dOutcome, dStatus, dCalls, dSent)
            res == publishToQueue(queue, record, redisOk) IN
        /\ queue' = res.list
        /\ dLog' = Append(dLog, [ message |-> record,
                                  outcome |-> res.outcome ])
    /\ dPhase' = "done"
    /\ UNCHANGED <<dCands, dIdx, dToken, dCalls, dSkipped, dOutcome, dStream,
                   dBalance, dTries, dSent, dFrame, dStatus, env, tVars,
                   eVars, qRest, nVars>>

----------------------------------------------------------------------------
(* calculateFees: the fee breakdown of a credit top-up.  An amount is a    *)
(* whole number of dollars, a sum of money is held in mills (1/1000 USD),  *)
(* a rate in per mille and a quotient as numerator and denominator, so     *)
(* that every value the code computes is exact.                            *)

\* the largest amount is 2 * MaxHalfAmount dollars
MaxHalfAmount == 6

\* fees.ts: the fee table, fixed fees in mills and rates in per mille
STRIPE_FIXED_FEE == 350
STRIPE_PERCENTAGE_FEE == 29
STRIPE_INTERNATIONAL_FEE_PERCENTAGE == 15
PAYSTACK_CARD_FIXED_FEE == 10000
PAYSTACK_CARD_PERCENTAGE_FEE == 35
PAYSTACK_MOBILE_MONEY_PERCENTAGE_FEE == 15
FREE_PLAN_FEE_PERCENTAGE == 50

\* lib/types.ts: its own STRIPE_FIXED_FEE (0.3) and the fee of the pro plan;
\* its other constants have the values of fees.ts
LibTypes_STRIPE_FIXED_FEE == 300
PRO_PLAN_FEE_PERCENTAGE == 10

Mills(amount) == amount * 1000

\* Math.round(value * 100) / 100 of the value n / d mills: the nearest
\* cent, in mills
roundToCents(n, d) == ((2 * n + 10 * d) \div (20 * d)) * 10

\* the destructuring defaults: paymentProvider = "stripe", channel = "card"
Default(v, d) == IF v = Unset THEN d ELSE v

\* cardCountry && cardCountry !== "US"
isInternationalCard(input) ==
    ~Falsy(input.cardCountry) /\ input.cardCountry # "US"

\* fees.ts calculateFees: every fee is a share of the amount
calculateFees(input) ==
    LET amount == input.amount
        paymentProvider == Default(input.paymentProvider, "stripe")
        channel == Default(input.channel, "card")
        providerFee ==
            IF paymentProvider = "stripe"
            THEN STRIPE_FIXED_FEE + amount * STRIPE_PERCENTAGE_FEE
            ELSE IF paymentProvider = "paystack"
            THEN IF channel = "mobile_money"
                 THEN amount * PAYSTACK_MOBILE_MONEY_PERCENTAGE_FEE
                 ELSE PAYSTACK_CARD_FIXED_FEE
                      + amount * PAYSTACK_CARD_PERCENTAGE_FEE
            ELSE 0
        internationalFee ==
            IF paymentProvider = "stripe" /\ isInternationalCard(input)
            THEN amount * STRIPE_INTERNATIONAL_FEE_PERCENTAGE
            ELSE 0
        planFee == IF input.organizationPlan = "free"
                   THEN amount * FREE_PLAN_FEE_PERCENTAGE ELSE 0
        totalFees == providerFee + internationalFee + planFee
        totalAmount == Mills(amount) + totalFees
    IN  [ baseAmount |-> Mills(amount),
          providerFee |-> roundToCents(providerFee, 1),
          internationalFee |-> roundToCents(internationalFee, 1),
          planFee |-> roundToCents(planFee, 1),
          totalFees |-> roundToCents(totalFees, 1),
          totalAmount |-> roundToCents(totalAmount, 1),
          paymentProvider |-> paymentProvider ]

\* lib/types.ts calculateFees: the total is grossed up,
\* totalAmount = (amount + providerFixedFee) / (1 - totalPercentageFees),
\* and every fee is a share of the total.  With den = 1000 - the rates in
\* per mille, totalAmount is grossed * 1000 / den mills and a fee at rate r
\* is grossed * r / den mills.
calculateFees_libTypes(input) ==
    LET amount == input.amount
        paymentProvider == Default(input.paymentProvider, "stripe")
        channel == Default(input.channel, "card")
        planFeePercentage == IF input.organizationPlan = "free"
                             THEN FREE_PLAN_FEE_PERCENTAGE
                             ELSE PRO_PLAN_FEE_PERCENTAGE
        providerFixedFee ==
            IF paymentProvider = "stripe" THEN LibTypes_STRIPE_FIXED_FEE
            ELSE IF channel = "mobile_money" THEN 0
            ELSE PAYSTACK_CARD_FIXED_FEE
        providerPercentageFee ==
            IF paymentProvider = "stripe" THEN STRIPE_PERCENTAGE_FEE
            ELSE IF channel = "mobile_money"
            THEN PAYSTACK_MOBILE_MONEY_PERCENTAGE_FEE
            ELSE PAYSTACK_CARD_PERCENTAGE_FEE
        internationalPercentageFee ==
            IF paymentProvider = "stripe" /\ isInternationalCard(input)
            THEN STRIPE_INTERNATIONAL_FEE_PERCENTAGE
            ELSE 0
        totalPercentageFees == providerPercentageFee
                               + internationalPercentageFee
                               + planFeePercentage
        den == 1000 - totalPercentageFees
        grossed == Mills(amount) + providerFixedFee
        fixed == providerFixedFee * den
    IN  [ baseAmount |-> Mills(amount),
          providerFee |->
              roundToCents(grossed * providerPercentageFee + fixed, den),
          internationalFee |->
              roundToCents(grossed * internationalPercentageFee, den),
          planFee |-> roundToCents(grossed * planFeePercentage, den),
          totalFees |->
              roundToCents(grossed * totalPercentageFees + fixed, den),
          totalAmount |-> roundToCents(grossed * 1000, den),
          paymentProvider |-> paymentProvider ]

\* the inputs: an even number of dollars, for which no fee of fees.ts
\* falls on a half cent
FeeAmounts == { 2 * k : k \in 1..MaxHalfAmount }
OrganizationPlans == { "free", "pro" }
PaymentProviders == { "stripe", "paystack" }
PaymentChannels == { "card", "mobile_money" }
CardCountries == { "US", "DE" }

FeeCalculationInput(a, plan, provider, country, channel) ==
    [ amount |-> a, organizationPlan |-> plan, paymentProvider |-> provider,
      cardCountry |-> country, channel |-> channel ]

NoFeeInput == FeeCalculationInput(0, "pro", Unset, Unset, Unset)

FeesIdle == fArgs = NoFeeInput /\ fOut = <<>>

\* a caller that imports calculateFees from fees.ts
CalculateFees ==
    /\ fArgs # NoFeeInput
    /\ fOut = <<>>
    /\ fOut' = << [ module |-> "fees.ts", fees |-> calculateFees(fArgs) ] >>
    /\ UNCHANGED <<fArgs, env, tVars, eVars, qVars, dVars, zVars, pVars, mVars,
                   lVars, cVars>>

\* a caller that imports calculateFees from lib/types.ts
CalculateFeesLibTypes ==
    /\ fArgs # NoFeeInput
    /\ fOut = <<>>
    /\ fOut' = << [ module |-> "lib/types.ts",
                    fees |-> calculateFees_libTypes(fArgs) ] >>
    /\ UNCHANGED <<fArgs, env, tVars, eVars, qVars, dVars, zVars, pVars, mVars,
                   lVars, cVars>>

----------------------------------------------------------------------------
(* The payments routes that take a saved payment method.                   *)

\* the routes serve at most MaxRequests requests in a run
MaxRequests == 1

NoUser == "<no user>"
Users == { "u1", "u2", "u3" }

\* the organization table; u1 and u2 are members of one each, u3 of none
Organizations ==
    [ org1 |-> [ id |-> "org1", plan |-> "pro", stripeCustomerId |-> "cus_1" ],
      org2 |-> [ id |-> "org2", plan |-> "free", stripeCustomerId |-> NULL ] ]

MemberOf == [ u1 |-> "org1", u2 |-> "org2" ]

\* db.query.userOrganization.findFirst({ where: { userId }, with:
\* { organization: true } }): <<>> when there is none
findUserOrganization(userId) ==
    IF userId \in DOMAIN MemberOf
    THEN << [ organization |-> Organizations[MemberOf[userId]] ] >>
    ELSE <<>>

\* the ids a request can name: the rows of the table and one unknown id
PaymentMethodIds == { "m1", "m2" }
UnknownId == "m9"

\* rows of the payment_method table; only a stripe row can carry a
\* stripePaymentMethodId
PaymentMethodRows ==
    { r \in [ organizationId : DOMAIN Organizations,
              provider : PaymentProviders,
              stripePaymentMethodId : { NULL, "pm_1" },
              type : PaymentChannels,
              isDefault : BOOLEAN ] :
        /\ r.provider = "paystack" => r.stripePaymentMethodId = NULL
        /\ r.provider = "stripe" => r.type = "card" }

\* db.query.paymentMethod.findFirst({ where: { id, organizationId } })
findPaymentMethod(table, id, organizationId) ==
    IF id \in DOMAIN table /\ table[id].organizationId = organizationId
    THEN << table[id] >>
    ELSE <<>>

\* db.query.paymentMethod.findFirst({ where: { id } })
findPaymentMethodById(table, id) ==
    IF id \in DOMAIN table THEN << table[id] >> ELSE <<>>

\* a thrown HTTPException, or an error thrown by the Stripe client (500);
\* the table is as the handler left it
HTTPException(status, message, table) ==
    [ status |-> status, body |-> [ message |-> message ], table |-> table ]

\* c.json(body)
Json(body, table) == [ status |-> 200, body |-> body, table |-> table ]

\* what the Stripe client can answer
DetachResults == { "detached", "threw" }
RetrieveResults == { "US", "DE", Unset, "threw" }
PaymentIntentResults == { "succeeded", "requires_action", "threw" }

\* POST /payment-methods/default
setDefaultPaymentMethod(table, user, paymentMethodId) ==
    IF user = NoUser THEN HTTPException(401, "Unauthorized", table) ELSE
    LET userOrganization == findUserOrganization(user) IN
    IF userOrganization = <<>>
    THEN HTTPException(404, "Organization not found", table) ELSE
    LET organizationId == userOrganization[1].organization.id
        paymentMethod == findPaymentMethod(table, paymentMethodId,
                                           organizationId)
    IN
    IF paymentMethod = <<>>
    THEN HTTPException(404, "Payment method not found", table) ELSE
    IF paymentMethod[1].provider # "stripe"
    THEN HTTPException(400, "Only Stripe payment methods are supported",
                       table) ELSE
    IF paymentMethod[1].stripePaymentMethodId = NULL
    THEN HTTPException(400, "Stripe payment method identifier missing",
                       table) ELSE
    Json([ success |-> TRUE ],
         [ i \in DOMAIN table |->
             IF i = paymentMethodId
             THEN [ table[i] EXCEPT !.isDefault = TRUE ]
             ELSE IF table[i].organizationId = organizationId
             THEN [ table[i] EXCEPT !.isDefault = FALSE ]
             ELSE table[i] ])

\* DELETE /payment-methods/{id}: a stripe method is detached at Stripe
\* first; the row is deleted whatever its provider
deletePaymentMethod(table, user, id, detach) ==
    IF user = NoUser THEN HTTPException(401, "Unauthorized", table) ELSE
    LET userOrganization == findUserOrganization(user) IN
    IF userOrganization = <<>>
    THEN HTTPException(404, "Organization not found", table) ELSE
    LET organizationId == userOrganization[1].organization.id
        paymentMethod == findPaymentMethod(table, id, organizationId)
    IN
    IF paymentMethod = <<>>
    THEN HTTPException(404, "Payment method not found", table) ELSE
    IF /\ paymentMethod[1].provider = "stripe"
       /\ paymentMethod[1].stripePaymentMethodId # NULL
       /\ detach = "threw"
    THEN HTTPException(500, "Internal Server Error", table) ELSE
    Json([ success |-> TRUE ],
         [ i \in DOMAIN table \ {id} |-> table[i] ])

\* POST /top-up-with-saved-method: the charge is made at Stripe; no row of
\* the payment_method table is written
topUpWithSavedMethod(table, user, amount, paymentMethodId, retrieve, intent) ==
    IF user = NoUser THEN HTTPException(401, "Unauthorized", table) ELSE
    LET paymentMethod == findPaymentMethodById(table, paymentMethodId) IN
    IF paymentMethod = <<>>
    THEN HTTPException(404, "Payment method not found", table) ELSE
    IF \/ paymentMethod[1].provider # "stripe"
       \/ paymentMethod[1].stripePaymentMethodId = NULL
    THEN HTTPException(400, "Only Stripe payment methods are supported",
                       table) ELSE
    LET userOrganization == findUserOrganization(user) IN
    IF userOrganization = <<>>
    THEN HTTPException(403, "Unauthorized access to payment method", table)
    ELSE
    IF userOrganization[1].organization.id # paymentMethod[1].organizationId
    THEN HTTPException(403, "Unauthorized access to payment method", table)
    ELSE
    IF userOrganization[1].organization.stripeCustomerId = NULL
    THEN HTTPException(400, "No Stripe customer ID found", table) ELSE
    IF retrieve = "threw" \/ intent = "threw"
    THEN HTTPException(500, "Internal Server Error", table) ELSE
    IF intent # "succeeded"
    THEN HTTPException(400, "Payment failed", table) ELSE
    Json([ success |-> TRUE ], table)

\* POST /calculate-fees: the provider and the channel start from the
\* overrides of the request; a payment method of the caller's organization
\* that is a stripe method with an identifier only supplies the card
\* country, any other one replaces the provider.  The first-purchase bonus
\* fields of the response are added next to the fee breakdown.
calculateFeesRoute(table, user, request, retrieve) ==
    IF user = NoUser THEN HTTPException(401, "Unauthorized", table) ELSE
    LET userOrganization == findUserOrganization(user) IN
    IF userOrganization = <<>>
    THEN HTTPException(404, "Organization not found", table) ELSE
    LET organization == userOrganization[1].organization
        paymentMethod ==
            IF Falsy(request.paymentMethodId) THEN <<>>
            ELSE findPaymentMethod(table, request.paymentMethodId,
                                   organization.id)
        isStripeMethod ==
            /\ paymentMethod # <<>>
            /\ paymentMethod[1].provider = "stripe"
            /\ paymentMethod[1].stripePaymentMethodId # NULL
        isOtherMethod == paymentMethod # <<>> /\ ~isStripeMethod
        cardCountry == IF isStripeMethod /\ retrieve # "threw"
                       THEN retrieve ELSE Unset
        paymentProvider == IF isOtherMethod THEN paymentMethod[1].provider
                           ELSE Default(request.paymentProvider, "stripe")
        feeChannel ==
            IF /\ isOtherMethod
               /\ Falsy(request.channel)
               /\ paymentMethod[1].provider = "paystack"
            THEN IF paymentMethod[1].type = "mobile_money"
                 THEN "mobile_money" ELSE "card"
            ELSE request.channel
    IN  Json(calculateFees(
                 [ amount |-> request.amount,
                   organizationPlan |-> organization.plan,
                   cardCountry |-> cardCountry,
                   paymentProvider |-> paymentProvider,
                   channel |-> feeChannel ]), table)

\* the amount of a request: z.number().int().min(5)
TopUpAmounts == { a \in FeeAmounts : a = 6 }

PaymentsRequest(amount, paymentMethodId, paymentProvider, channel) ==
    [ amount |-> amount, paymentMethodId |-> paymentMethodId,
      paymentProvider |-> paymentProvider, channel |-> channel ]

Reply(route, user, request, res) ==
    [ route |-> route, caller |-> user, request |-> request,
      before |-> pMethods, status |-> res.status, body |-> res.body ]

NoReply == [ route |-> "<none>" ]

PaymentsIdle == pMethods = <<>> /\ pReply = NoReply /\ pCount = 0

SetDefaultPaymentMethod ==
    /\ pCount < MaxRequests
    /\ pCount' = pCount + 1
    /\ \E user \in Users \cup {NoUser},
          id \in PaymentMethodIds \cup {UnknownId} :
        LET res == setDefaultPaymentMethod(pMethods, user, id) IN
        /\ pMethods' = res.table
        /\ pReply' = Reply("set-default", user,
                           PaymentsRequest(0, id, Unset, Unset), res)
    /\ UNCHANGED <<env, tVars, eVars, qVars, dVars, zVars, fVars, mVars, lVars,
                   cVars>>

DeletePaymentMethod ==
    /\ pCount < MaxRequests
    /\ pCount' = pCount + 1
    /\ \E user \in Users \cup {NoUser},
          id \in PaymentMethodIds \cup {UnknownId},
          detach \in DetachResults :
        LET res == deletePaymentMethod(pMethods, user, id, detach) IN
        /\ pMethods' = res.table
        /\ pReply' = Reply("delete", user,
                           PaymentsRequest(0, id, Unset, Unset), res)
    /\ UNCHANGED <<env, tVars, eVars, qVars, dVars, zVars, fVars, mVars, lVars,
                   cVars>>

TopUpWithSavedMethod ==
    /\ pCount < MaxRequests
    /\ pCount' = pCount + 1
    /\ \E user \in Users \cup {NoUser}, amount \in TopUpAmounts,
          id \in PaymentMethodIds \cup {UnknownId},
          retrieve \in RetrieveResults, intent \in PaymentIntentResults :
        LET res == topUpWithSavedMethod(pMethods, user, amount, id,
                                        retrieve, intent) IN
        /\ pMethods' = res.table
        /\ pReply' = Reply("top-up", user,
                           PaymentsRequest(amount, id, Unset, Unset), res)
    /\ UNCHANGED <<env, tVars, eVars, qVars, dVars, zVars, fVars, mVars, lVars,
                   cVars>>

CalculateFeesRoute ==
    /\ pCount < MaxRequests
    /\ pCount' = pCount + 1
    /\ \E user \in Users \cup {NoUser}, amount \in TopUpAmounts,
          id \in PaymentMethodIds \cup {UnknownId, Unset},
          provider \in PaymentProviders \cup {Unset},
          channel \in PaymentChannels \cup {Unset},
          retrieve \in RetrieveResults :
        LET request == PaymentsRequest(amount, id, provider, channel)
            res == calculateFeesRoute(pMethods, user, request, retrieve) IN
        /\ pMethods' = res.table
        /\ pReply' = Reply("calculate-fees", user, request, res)
    /\ UNCHANGED <<env, tVars, eVars, qVars, dVars, zVars, fVars, mVars, lVars,
                   cVars>>

----------------------------------------------------------------------------
(* GET /v1/models: the catalog listing and its two filters.                *)

\* times are 1..MaxTime
MaxTime == 3

ModelIds == { "model-a", "model-b" }

\* an optional timestamp: {} when the model has none
Timestamps == { {} } \cup { {t} : t \in 1..MaxTime }

\* a query parameter is absent or carries a string
QueryValues == { Unset, "true", "false" }

\* a timestamp that is set and lies before now
InThePast(timestamp, now) == \E t \in timestamp : t < now

\* a handler in which include_deactivated=true switches every filter off
listModelsIncludeAll(catalog, query, now) ==
    LET includeDeactivated == query.include_deactivated = "true"
        excludeDeprecated == query.exclude_deprecated = "true"
    IN  { id \in DOMAIN catalog :
            \/ includeDeactivated
            \/ /\ ~InThePast(catalog[id].deactivated_at, now)
               /\ ~excludeDeprecated
                  \/ ~InThePast(catalog[id].deprecated_at, now) }

\* the handler: a deactivated model is listed only with
\* include_deactivated=true, a deprecated one is dropped with
\* exclude_deprecated=true; each parameter acts on its own timestamp
listModels(catalog, query, now) ==
    LET includeDeactivated == query.include_deactivated = "true"
        excludeDeprecated == query.exclude_deprecated = "true"
    IN  { id \in DOMAIN catalog :
            /\ includeDeactivated \/ ~InThePast(catalog[id].deactivated_at, now)
            /\ ~excludeDeprecated \/ ~InThePast(catalog[id].deprecated_at, now) }

NoQuery == [ include_deactivated |-> Unset, exclude_deprecated |-> Unset ]

ModelsIdle ==
    /\ mCatalog = <<>>
    /\ mNow = 0
    /\ mQuery = NoQuery
    /\ mResp = <<>>

\* the request is served: mResp holds the data array
ListModels ==
    /\ mNow > 0
    /\ mResp = <<>>
    /\ mResp' = << listModels(mCatalog, mQuery, mNow) >>
    /\ UNCHANGED <<mCatalog, mNow, mQuery, env, tVars, eVars, qVars, dVars, zVars,
                   fVars, pVars, lVars, cVars>>

----------------------------------------------------------------------------
(* The credit ledger: debit, idempotent on the request id.                 *)

\* balances are 0..MaxBalance
MaxBalance == 3
\* the tasks that call the ledger are 1..MaxTasks
MaxTasks == 2
\* a request costs 1..MaxCost
MaxCost == 2

LedgerOrgs == { "org1", "org2" }
RequestIds == { "r1", "r2" }
Tasks == 1..MaxTasks

\* a debit that checks the balance and not the request id
debitNotIdempotent(balance, debited, orgId, requestId, amount) ==
    IF balance[orgId] < amount
    THEN [ result |-> "InsufficientCredits", balance |-> balance,
           debited |-> debited ]
    ELSE [ result |-> "ok",
           balance |-> [ balance EXCEPT ![orgId] = @ - amount ],
           debited |-> debited \cup { <<orgId, requestId>> } ]

\* debit(orgId, requestId, amount) -> ok | AlreadyDebited |
\* InsufficientCredits; the ledger serializes its writes, so one debit is
\* one step
debit(balance, debited, orgId, requestId, amount) ==
    IF <<orgId, requestId>> \in debited
    THEN [ result |-> "AlreadyDebited", balance |-> balance,
           debited |-> debited ]
    ELSE IF balance[orgId] < amount
    THEN [ result |-> "InsufficientCredits", balance |-> balance,
           debited |-> debited ]
    ELSE [ result |-> "ok",
           balance |-> [ balance EXCEPT ![orgId] = @ - amount ],
           debited |-> debited \cup { <<orgId, requestId>> } ]

NoDebitCall == [ pc |-> "idle", orgId |-> "<none>", requestId |-> "<none>",
                 amount |-> 0, raced |-> FALSE, result |-> "<none>" ]

LedgerIdle ==
    /\ lBalance = <<>>
    /\ lDebited = {}
    /\ lOpening = <<>>
    /\ lCost = <<>>
    /\ lCalls = <<>>

\* the debit calls in flight for the same organization and request id
InFlight(orgId, requestId) ==
    { t \in DOMAIN lCalls : /\ lCalls[t].pc = "sent"
                            /\ lCalls[t].orgId = orgId
                            /\ lCalls[t].requestId = requestId }

\* task t sends debit(orgId, requestId, cost of the request) to the ledger
CallDebit(t, orgId, requestId) ==
    /\ lCalls # <<>>
    /\ lCalls[t].pc = "idle"
    /\ lCalls' = [ lCalls EXCEPT ![t] =
                     [ pc |-> "sent", orgId |-> orgId,
                       requestId |-> requestId,
                       amount |-> lCost[requestId],
                       raced |-> InFlight(orgId, requestId) # {},
                       result |-> "<none>" ] ]
    /\ UNCHANGED <<lBalance, lDebited, lOpening, lCost, env, tVars, eVars,
                   qVars, dVars, zVars, fVars, pVars, mVars, cVars>>

\* the ledger serves the call of task t and answers it
LedgerDebit(t) ==
    /\ lCalls # <<>>
    /\ lCalls[t].pc = "sent"
    /\ LET res == debit(lBalance, lDebited, lCalls[t].orgId,
                        lCalls[t].requestId, lCalls[t].amount) IN
        /\ lBalance' = res.balance
        /\ lDebited' = res.debited
        /\ lCalls' = [ lCalls EXCEPT ![t].pc = "done",
                                     ![t].result = res.result ]
    /\ UNCHANGED <<lOpening, lCost, env, tVars, eVars, qVars, dVars, zVars, fVars,
                   pVars, mVars, cVars>>

----------------------------------------------------------------------------
(* The response cache: getOrCompute with single-flight coordination.       *)

\* the callers of getOrCompute are 1..MaxCallers
MaxCallers == 3
\* fillers fail at most MaxFailures times in a run
MaxFailures == 1

CacheKeys == { "k1", "k2" }
\* what a filler can compute: two runs need not agree
CacheValues == { "v1", "v2" }
NoValue == "<miss>"
Callers == 1..MaxCallers

\* a lookup without the single-flight cell: every miss starts a filler
lookupNoSingleFlight(cache, cell, key) ==
    IF cache[key] # NoValue THEN "hit" ELSE "fill"

\* the first step of getOrCompute(key, filler): a stored entry is a hit; on
\* a miss the caller joins the filler in flight for the key, and starts
\* the filler when there is none
lookup(cache, cell, key) ==
    IF cache[key] # NoValue THEN "hit"
    ELSE IF cell[key] # 0 THEN "join"
    ELSE "fill"

NoCaller == [ pc |-> "idle", key |-> "<none>", role |-> "<none>",
              result |-> "<none>" ]

CacheIdle ==
    /\ cCache = <<>>
    /\ cCell = <<>>
    /\ cFills = <<>>
    /\ cFailed = <<>>
    /\ cCallers = <<>>

\* caller c proceeds on what the lookup of its key finds
Proceed(c, key, role) ==
    LET found == lookup(cCache, cCell, key) IN
    /\ cCallers' = [ cCallers EXCEPT ![c] =
         IF found = "hit"
         THEN [ pc |-> "done", key |-> key, role |-> role,
                result |-> cCache[key] ]
         ELSE IF found = "join"
         THEN [ pc |-> "waiting", key |-> key, role |-> "waiter",
                result |-> "<none>" ]
         ELSE [ pc |-> "filling", key |-> key, role |-> "filler",
                result |-> "<none>" ] ]
    /\ cCell' = IF found = "fill" THEN [ cCell EXCEPT ![key] = c ] ELSE cCell
    /\ cFills' = IF found = "fill" THEN [ cFills EXCEPT ![key] = @ + 1 ]
                 ELSE cFills

\* caller c calls getOrCompute(key, filler)
GetOrCompute(c, key) ==
    /\ cCallers # <<>>
    /\ cCallers[c].pc = "idle"
    /\ Proceed(c, key, "reader")
    /\ UNCHANGED <<cCache, cFailed, env, tVars, eVars, qVars, dVars, zVars, fVars,
                   pVars, mVars, lVars>>

\* the filler of caller c returns value: the entry is stored and the cell
\* is released
FillerReturns(c, value) ==
    /\ cCallers # <<>>
    /\ cCallers[c].pc = "filling"
    /\ cCache' = [ cCache EXCEPT ![cCallers[c].key] = value ]
    /\ cCell' = [ cCell EXCEPT ![cCallers[c].key] = IF @ = c THEN 0 ELSE @ ]
    /\ cCallers' = [ cCallers EXCEPT ![c].pc = "done", ![c].result = value ]
    /\ UNCHANGED <<cFills, cFailed, env, tVars, eVars, qVars, dVars, zVars, fVars,
                   pVars, mVars, lVars>>

\* the filler of caller c fails: nothing is stored, the cell is released
\* and the error goes to the caller that ran it
FillerFails(c) ==
    /\ cCallers # <<>>
    /\ cCallers[c].pc = "filling"
    /\ cFailed["k1"] + cFailed["k2"] < MaxFailures
    /\ cFailed' = [ cFailed EXCEPT ![cCallers[c].key] = @ + 1 ]
    /\ cCell' = [ cCell EXCEPT ![cCallers[c].key] = IF @ = c THEN 0 ELSE @ ]
    /\ cCallers' = [ cCallers EXCEPT ![c].pc = "done", ![c].result = "error" ]
    /\ UNCHANGED <<cCache, cFills, env, tVars, eVars, qVars, dVars, zVars, fVars,
                   pVars, mVars, lVars>>

\* a waiter whose filler is through reads the entry; after a failed filler
\* there is none and the waiter retries on its own
WaiterWakes(c) ==
    /\ cCallers # <<>>
    /\ cCallers[c].pc = "waiting"
    /\ cCell[cCallers[c].key] = 0
    /\ Proceed(c, cCallers[c].key, "waiter")
    /\ UNCHANGED <<cCache, cFailed, env, tVars, eVars, qVars, dVars, zVars, fVars,
                   pVars, mVars, lVars>>

----------------------------------------------------------------------------
(* The admin endpoints GET /metrics and GET /tokens, gated by ADMIN_EMAILS.*)

\* ADMIN_EMAILS has at most MaxEnvLen characters
MaxEnvLen == 3
\* an email address has at most MaxEmailLen characters
MaxEmailLen == 2

\* a string is the sequence of its characters
EmailChars == { "a", "A", "b" }
EnvChars == EmailChars \cup { ",", " " }
Strings(chars, n) == UNION { [ 1..k -> chars ] : k \in 0..n }

\* String.prototype.toLowerCase
toLowerCase(s) == [ i \in 1..Len(s) |-> IF s[i] = "A" THEN "a" ELSE s[i] ]

\* String.prototype.trim
RECURSIVE trim(_)
trim(s) ==
    IF s = <<>> THEN s
    ELSE IF Head(s) = " " THEN trim(Tail(s))
    ELSE IF s[Len(s)] = " " THEN trim(SubSeq(s, 1, Len(s) - 1))
    ELSE s

\* String.prototype.split(","): the pieces between the commas
RECURSIVE split(_)
split(s) ==
    IF \A i \in 1..Len(s) : s[i] # ","
    THEN << s >>
    ELSE LET i == CHOOSE k \in 1..Len(s) :
                    s[k] = "," /\ \A j \in 1..(k - 1) : s[j] # ","
         IN  << SubSeq(s, 1, i - 1) >> \o split(SubSeq(s, i + 1, Len(s)))

\* Array.prototype.includes
includes(xs, x) == \E i \in 1..Len(xs) : xs[i] = x

\* process.env.ADMIN_EMAILS: unset, or set to a string
UnsetVar == [ set |-> FALSE, value |-> <<>> ]
SetVar(s) == [ set |-> TRUE, value |-> s ]

\* an email of type string | null | undefined
NullEmail == [ null |-> TRUE, value |-> <<>> ]
Email(s) == [ null |-> FALSE, value |-> s ]

\* isAdminEmail with the email compared as it is spelled
isAdminEmailCaseSensitive(email, adminEmailsVar) ==
    LET adminEmailsEnv == IF ~adminEmailsVar.set \/ adminEmailsVar.value = <<>>
                          THEN <<>> ELSE adminEmailsVar.value
        pieces == split(adminEmailsEnv)
        mapped == [ i \in 1..Len(pieces) |-> toLowerCase(trim(pieces[i])) ]
        adminEmails == SelectSeq(mapped, LAMBDA v : v # <<>>)
    IN  IF email.null \/ email.value = <<>> \/ Len(adminEmails) = 0
        THEN FALSE
        ELSE includes(adminEmails, email.value)

\* isAdminEmail
isAdminEmail(email, adminEmailsVar) ==
    LET adminEmailsEnv == IF ~adminEmailsVar.set \/ adminEmailsVar.value = <<>>
                          THEN <<>> ELSE adminEmailsVar.value
        pieces == split(adminEmailsEnv)
        mapped == [ i \in 1..Len(pieces) |-> toLowerCase(trim(pieces[i])) ]
        adminEmails == SelectSeq(mapped, LAMBDA v : v # <<>>)
    IN  IF email.null \/ email.value = <<>> \/ Len(adminEmails) = 0
        THEN FALSE
        ELSE includes(adminEmails, toLowerCase(email.value))

\* c.get("user"): no user, or a user with an email
NoAuthUser == [ present |-> FALSE, email |-> NullEmail ]
AuthUser(email) == [ present |-> TRUE, email |-> email ]

\* the guard both handlers start with; past it the handler queries the
\* database and answers 200 with the metrics
adminGuard(authUser, adminEmailsVar) ==
    IF ~authUser.present
    THEN [ status |-> 401, message |-> "Unauthorized", data |-> FALSE ]
    ELSE IF ~isAdminEmail(authUser.email, adminEmailsVar)
    THEN [ status |-> 403, message |-> "Admin access required",
           data |-> FALSE ]
    ELSE [ status |-> 200, message |-> "", data |-> TRUE ]

getMetrics(authUser, adminEmailsVar) == adminGuard(authUser, adminEmailsVar)

getTokenMetrics(authUser, adminEmailsVar) ==
    adminGuard(authUser, adminEmailsVar)

NoAdminReply == [ endpoint |-> "", status |-> 0, message |-> "",
                  data |-> FALSE ]

AdminIdle ==
    /\ aEnv = UnsetVar
    /\ aUser = NoAuthUser
    /\ aReply = NoAdminReply

\* GET /metrics is served
GetMetrics ==
    /\ aReply = NoAdminReply
    /\ aReply' = [ endpoint |-> "/metrics" ] @@ getMetrics(aUser, aEnv)
    /\ UNCHANGED <<aEnv, aUser, env, tVars, eVars, qVars, dVars, fVars,
                   pVars, mVars, lVars, cVars, kVars>>

\* GET /tokens is served
GetTokenMetrics ==
    /\ aReply = NoAdminReply
    /\ aReply' = [ endpoint |-> "/tokens" ] @@ getTokenMetrics(aUser, aEnv)
    /\ UNCHANGED <<aEnv, aUser, env, tVars, eVars, qVars, dVars, fVars,
                   pVars, mVars, lVars, cVars, kVars>>

----------------------------------------------------------------------------
(* Paystack: the webhook, the top-up routes and the charge records.        *)
(* Money is in mills, as in calculateFees; the numeric strings of the      *)
(* transaction table are kept as the numbers they spell.                   *)

\* the requests are 1..MaxProcs; each runs one handler
MaxProcs == 3
\* a top-up asks for an even amount of MinTopUp..MinTopUp + 2 * MaxTopUpStep
MaxTopUpStep == 1

KOrgs == { "o1", "o2" }
TxIds == { "t1", "t2" }
\* organization o1 starts with InitialMethods payment methods
InitialMethods == 2
MethodIds == 1..(InitialMethods + MaxProcs)
AuthCodes == { "AUTH_1", "AUTH_2" }
Procs == 1..MaxProcs

\* z.number().int().min(5): the smallest even amount is 6
MinTopUp == 6
PaystackAmounts == { MinTopUp + 2 * k : k \in 0..MaxTopUpStep }

\* process.env: PAYSTACK_WEBHOOK_SECRET and PAYSTACK_SECRET_KEY, each unset,
\* empty or a secret
PaystackConfigs ==
    [ PAYSTACK_WEBHOOK_SECRET : { Unset, "", "whsec" },
      PAYSTACK_SECRET_KEY : { Unset, "", "sk" } ]

\* const PAYSTACK_WEBHOOK_SECRET =
\*     process.env.PAYSTACK_WEBHOOK_SECRET ?? PAYSTACK_SECRET_KEY
PAYSTACK_WEBHOOK_SECRET(config) ==
    IF config.PAYSTACK_WEBHOOK_SECRET # Unset
    THEN config.PAYSTACK_WEBHOOK_SECRET
    ELSE config.PAYSTACK_SECRET_KEY

\* the length of the hex digest of a SHA-512 HMAC
HexDigestLength == 128
\* the length of a signature header that is no such digest
ShortLength == 5

\* crypto.createHmac("sha512", secret).update(rawBody).digest("hex"): a
\* string of 128 characters determined by the secret and the body
createHmac(secret, rawBody) ==
    [ length |-> HexDigestLength, chars |-> << "hmac", secret, rawBody >> ]

\* the x-paystack-signature header: absent, empty, or a string
NoSignature == [ length |-> 0, chars |-> << "null" >> ]
EmptySignature == [ length |-> 0, chars |-> << >> ]
JunkSignature(n) == [ length |-> n, chars |-> << "junk" >> ]

\* crypto.timingSafeEqual: a RangeError on buffers of different lengths
timingSafeEqual(a, b) ==
    IF a.length # b.length THEN "RangeError"
    ELSE IF a.chars = b.chars THEN "true" ELSE "false"

\* verifyPaystackSignature: "true", "false", or the error it throws
verifyPaystackSignature(signature, rawBody, config) ==
    LET secret == PAYSTACK_WEBHOOK_SECRET(config)
    IN  IF secret = Unset \/ secret = "" THEN "true"
        ELSE IF signature.length = 0 THEN "false"
        ELSE timingSafeEqual(signature, createHmac(secret, rawBody))

\* feeBreakdown of the charge metadata: absent, or a FeeBreakdown
NoFeeBreakdown == [ present |-> FALSE, baseAmount |-> 0, totalAmount |-> 0 ]
PaystackFees(amount, channel) ==
    LET fees == calculateFees(FeeCalculationInput(amount, "pro", "paystack",
                                                  Unset, channel))
    IN  [ present |-> TRUE, baseAmount |-> fees.baseAmount,
          totalAmount |-> fees.totalAmount ]

\* PaystackChargeMetadata; coercePaystackMetadata turns null, undefined and
\* an unparsable string into {}, whose fields are all undefined
ChargeMetadata(organizationId, transactionId, baseAmount, feeBreakdown, savePaymentMethod, makeDefault) ==
    [ organizationId |-> organizationId, transactionId |-> transactionId,
      baseAmount |-> baseAmount, feeBreakdown |-> feeBreakdown,
      savePaymentMethod |-> savePaymentMethod, makeDefault |-> makeDefault ]

EmptyMetadata ==
    ChargeMetadata(Unset, Unset, NullNum, NoFeeBreakdown, FALSE, FALSE)

\* the data of a charge event: amount in the minor unit, reference,
\* metadata and the authorization code of the card (Unset when absent)
ChargeEventData(amount, reference, metadata, authorizationCode) ==
    [ amount |-> amount, reference |-> reference, metadata |-> metadata,
      authorization_code |-> authorizationCode ]

\* data.amount / 100, in mills
MinorToMills(amount) == amount * 10

\* SuccessfulChargeParams
SuccessfulChargeParams(organizationId, transactionId, amountPaid, creditAmount, reference, authorizationCode, metadata) ==
    [ organizationId |-> organizationId, transactionId |-> transactionId,
      amountPaid |-> amountPaid, creditAmount |-> creditAmount,
      reference |-> reference, authorization_code |-> authorizationCode,
      savePaymentMethod |-> metadata.savePaymentMethod,
      makeDefault |-> metadata.makeDefault ]

NoParams ==
    SuccessfulChargeParams("", "", 0, 0, "", Unset, EmptyMetadata)

\* handleChargeSuccess up to its call of recordSuccessfulPaystackCharge: no
\* call without organizationId and transactionId in the metadata
handleChargeSuccess(data) ==
    LET metadata == data.metadata
        feeBreakdown == metadata.feeBreakdown
        amountPaid == IF feeBreakdown.present THEN feeBreakdown.totalAmount
                      ELSE MinorToMills(data.amount)
        creditAmount ==
            IF ~IsNull(metadata.baseAmount) THEN Val(metadata.baseAmount)
            ELSE IF feeBreakdown.present THEN feeBreakdown.baseAmount
            ELSE amountPaid
    IN  IF metadata.organizationId = Unset \/ metadata.transactionId = Unset
        THEN [ calls |-> FALSE, params |-> NoParams ]
        ELSE [ calls |-> TRUE,
               params |-> SuccessfulChargeParams(
                   metadata.organizationId, metadata.transactionId,
                   amountPaid, creditAmount, data.reference,
                   data.authorization_code, metadata) ]

\* a row of the transaction table; requested is the base amount asked for
\* when the row was inserted, status "none" stands for no row
TransactionRow(organizationId, status, amount, creditAmount, reference, requested) ==
    [ organizationId |-> organizationId, status |-> status,
      amount |-> amount, creditAmount |-> creditAmount,
      paystackReference |-> reference, requested |-> requested ]

NoTransaction == TransactionRow("", "none", 0, 0, NULL, 0)

\* db.insert(tables.transaction) of the two top-up routes: a pending row
\* of the caller's organization
insertTransaction(tx, id, organizationId, feeBreakdown) ==
    [ tx EXCEPT ![id] =
        TransactionRow(organizationId, "pending", feeBreakdown.totalAmount,
                       feeBreakdown.baseAmount, NULL,
                       feeBreakdown.baseAmount) ]

\* the ids no row has yet
FreeTxIds(tx) == { id \in DOMAIN tx : tx[id].status = "none" }

\* the rows matched by eq(transaction.id, transactionId) and
\* ne(transaction.status, "completed")
notCompleted(tx, transactionId) ==
    { id \in DOMAIN tx : /\ id = transactionId
                         /\ tx[id].status \notin { "none", "completed" } }

\* recordFailedPaystackCharge without ne(transaction.status, "completed")
recordFailedPaystackChargeAnyStatus(tx, transactionId, reference) ==
    [ id \in DOMAIN tx |->
        IF id = transactionId /\ tx[id].status # "none"
        THEN [ tx[id] EXCEPT !.status = "failed",
                             !.paystackReference = reference ]
        ELSE tx[id] ]

\* recordFailedPaystackCharge
recordFailedPaystackCharge(tx, transactionId, reference) ==
    [ id \in DOMAIN tx |->
        IF id \in notCompleted(tx, transactionId)
        THEN [ tx[id] EXCEPT !.status = "failed",
                             !.paystackReference = reference ]
        ELSE tx[id] ]

\* recordSuccessfulPaystackCharge, the update of the transaction row
completeTransaction(tx, params) ==
    [ id \in DOMAIN tx |->
        IF id \in notCompleted(tx, params.transactionId)
        THEN [ tx[id] EXCEPT !.status = "completed",
                             !.amount = params.amountPaid,
                             !.creditAmount = params.creditAmount,
                             !.paystackReference = params.reference ]
        ELSE tx[id] ]

\* recordSuccessfulPaystackCharge, credits = credits + creditAmount where
\* organization.id = organizationId
addCredits(credits, organizationId, creditAmount) ==
    [ o \in DOMAIN credits |->
        IF o = organizationId THEN credits[o] + creditAmount
        ELSE credits[o] ]

\* a row of the payment_method table; exists is FALSE for no row
PaymentMethod(exists, organizationId, provider, stripePaymentMethodId, paystackAuthorizationCode, isDefault) ==
    [ exists |-> exists, organizationId |-> organizationId,
      provider |-> provider,
      stripePaymentMethodId |-> stripePaymentMethodId,
      paystackAuthorizationCode |-> paystackAuthorizationCode,
      isDefault |-> isDefault ]

NoPaymentMethod == PaymentMethod(FALSE, "", "", NULL, NULL, FALSE)

FreeMethodIds(methods) == { id \in DOMAIN methods : ~methods[id].exists }

\* set({ isDefault: false }) where paymentMethod.organizationId = organizationId
clearDefaults(methods, organizationId) ==
    [ id \in DOMAIN methods |->
        IF methods[id].exists /\ methods[id].organizationId = organizationId
        THEN [ methods[id] EXCEPT !.isDefault = FALSE ]
        ELSE methods[id] ]

\* recordSuccessfulPaystackCharge, the part that saves the payment method;
\* the new row takes the id newId
savePaymentMethod(methods, params, newId) ==
    LET organizationId == params.organizationId
        authCode == params.authorization_code
        saveMethod == params.savePaymentMethod
        makeDefault == params.makeDefault
        found == { id \in DOMAIN methods :
                     /\ methods[id].exists
                     /\ methods[id].organizationId = organizationId
                     /\ methods[id].paystackAuthorizationCode = authCode }
    IN  IF ~(saveMethod /\ authCode # Unset) THEN methods
        ELSE IF found # {}
        THEN LET existing == CHOOSE id \in found : TRUE
             IN  [ methods EXCEPT ![existing].isDefault =
                     IF makeDefault THEN TRUE ELSE methods[existing].isDefault ]
        ELSE LET cleared == IF makeDefault
                            THEN clearDefaults(methods, organizationId)
                            ELSE methods
             IN  [ cleared EXCEPT ![newId] =
                     PaymentMethod(TRUE, organizationId, "paystack", NULL,
                                   authCode, makeDefault) ]

\* the response of Paystack to POST /transaction/charge_authorization: the
\* HTTP status is ok or not, payload.status is the success of the API call,
\* payload.data.status is the status of the charge itself
ChargeStatuses == { "success", "failed", "pending" }
HttpResponse(ok, status, chargeStatus) ==
    [ ok |-> ok, status |-> status, data |-> [ status |-> chargeStatus ] ]
HttpResponses ==
    { HttpResponse(TRUE, TRUE, s) : s \in ChargeStatuses }
        \cup { HttpResponse(FALSE, FALSE, "failed") }

\* paystackRequest: payload.data, or the error it throws
paystackRequest(config, response) ==
    IF config.PAYSTACK_SECRET_KEY \in { Unset, "" }
    THEN [ throws |-> TRUE, data |-> [ status |-> "" ] ]
    ELSE IF ~response.ok \/ ~response.status
    THEN [ throws |-> TRUE, data |-> [ status |-> "" ] ]
    ELSE [ throws |-> FALSE, data |-> response.data ]

\* chargePaystackAuthorization
chargePaystackAuthorization(config, response) ==
    paystackRequest(config, response)

\* the body of a webhook request: unparsable, or an event with its data
WebhookBody(wellFormed, event, data) ==
    [ wellFormed |-> wellFormed, event |-> event, data |-> data ]

NoBody == WebhookBody(FALSE, "", ChargeEventData(0, "", EmptyMetadata, Unset))

\* one request: its handler, its position in it, what it was sent, the
\* arguments of the record call it makes, the status it was answered with
\* (0 while it is served) and whether it wrote to a table
NoProc ==
    [ op |-> "", pc |-> "idle", signature |-> NoSignature,
      rawBody |-> NoBody, params |-> NoParams, methodId |-> 0,
      charge |-> "", after |-> 0, reply |-> 0, wrote |-> FALSE ]

Started(op) == [ NoProc EXCEPT !.op = op ]
Replied(proc, status) == [ proc EXCEPT !.pc = "done", !.reply = status ]

PaystackIdle ==
    /\ kConfig = [ PAYSTACK_WEBHOOK_SECRET |-> Unset,
                   PAYSTACK_SECRET_KEY |-> Unset ]
    /\ kTx = <<>>
    /\ kCredits = <<>>
    /\ kMethods = <<>>
    /\ kGrants = <<>>
    /\ kLock = <<>>
    /\ kProcs = <<>>

\* handleChargeFailure up to its call of recordFailedPaystackCharge
handleChargeFailure(data) ==
    LET metadata == data.metadata
    IN  IF metadata.organizationId = Unset \/ metadata.transactionId = Unset
        THEN [ calls |-> FALSE, params |-> NoParams ]
        ELSE [ calls |-> TRUE,
               params |-> SuccessfulChargeParams(
                   metadata.organizationId, metadata.transactionId, 0, 0,
                   data.reference, Unset, EmptyMetadata) ]

\* the webhook route up to the record call of its event handler
webhookRoute(signature, rawBody, config) ==
    LET verdict == verifyPaystackSignature(signature, rawBody, config)
        start == [ Started("webhook") EXCEPT !.signature = signature,
                                             !.rawBody = rawBody ]
        success == handleChargeSuccess(rawBody.data)
        failure == handleChargeFailure(rawBody.data)
    IN  IF verdict = "RangeError" THEN Replied(start, 500)
        ELSE IF verdict = "false" THEN Replied(start, 400)
        ELSE IF ~rawBody.wellFormed THEN Replied(start, 400)
        ELSE IF rawBody.event = "charge.success" /\ success.calls
        THEN [ start EXCEPT !.pc = "record_update",
                            !.params = success.params, !.after = 200 ]
        ELSE IF rawBody.event \in { "charge.failed", "charge.abandoned" }
                /\ failure.calls
        THEN [ start EXCEPT !.pc = "record_failed",
                            !.params = failure.params, !.after = 200 ]
        ELSE Replied(start, 200)

\* POST /webhook arrives and is served up to the record call
Webhook(p, signature, rawBody) ==
    /\ kProcs[p].pc = "idle"
    /\ kProcs' = [ kProcs EXCEPT ![p] =
                     webhookRoute(signature, rawBody, kConfig) ]
    /\ UNCHANGED <<kConfig, kTx, kCredits, kMethods, kGrants, kLock, oVars>>

\* recordSuccessfulPaystackCharge, the guarded update inside the database
\* transaction: it waits while another request holds the row, matches
\* nothing on a completed row, and holds the row until the commit
RecordUpdate(p) ==
    LET proc == kProcs[p]
        t == proc.params.transactionId
    IN  /\ proc.pc = "record_update"
        /\ kLock[t] = 0
        /\ IF notCompleted(kTx, t) = {}
           THEN /\ kProcs' = [ kProcs EXCEPT ![p] = Replied(proc, proc.after) ]
                /\ UNCHANGED kLock
           ELSE /\ kProcs' = [ kProcs EXCEPT ![p].pc = "record_commit" ]
                /\ kLock' = [ kLock EXCEPT ![t] = p ]
        /\ UNCHANGED <<kConfig, kTx, kCredits, kMethods, kGrants, oVars>>

\* recordSuccessfulPaystackCharge, the rest of the database transaction and
\* its commit: the row, the credits and the payment method change together
RecordCommit(p) ==
    LET proc == kProcs[p]
        params == proc.params
        t == params.transactionId
    IN  /\ proc.pc = "record_commit"
        /\ FreeMethodIds(kMethods) # {}
        /\ kTx' = completeTransaction(kTx, params)
        /\ kCredits' = addCredits(kCredits, params.organizationId,
                                  params.creditAmount)
        /\ kGrants' = [ kGrants EXCEPT ![t] =
                          Append(@, [ organizationId |-> params.organizationId,
                                      amount |-> params.creditAmount ]) ]
        /\ kMethods' = savePaymentMethod(kMethods, params,
                           CHOOSE id \in FreeMethodIds(kMethods) :
                               \A other \in FreeMethodIds(kMethods) : id <= other)
        /\ kLock' = [ kLock EXCEPT ![t] = 0 ]
        /\ kProcs' = [ kProcs EXCEPT ![p] =
                         [ Replied(proc, proc.after) EXCEPT !.wrote = TRUE ] ]
        /\ UNCHANGED <<kConfig, oVars>>

\* recordFailedPaystackCharge: one guarded update, which waits while another
\* request holds the row
RecordFailed(p) ==
    LET proc == kProcs[p]
        t == proc.params.transactionId
    IN  /\ proc.pc = "record_failed"
        /\ kLock[t] = 0
        /\ kTx' = recordFailedPaystackCharge(kTx, t, proc.params.reference)
        /\ kProcs' = [ kProcs EXCEPT ![p] =
                         [ Replied(proc, proc.after)
                             EXCEPT !.wrote = proc.wrote \/ kTx' # kTx ] ]
        /\ UNCHANGED <<kConfig, kCredits, kMethods, kGrants, kLock, oVars>>

\* the requests arrive in the order of their numbers
InOrder(p) == \A q \in Procs : q < p => kProcs[q].pc # "idle"

\* a caller (the webhook or the saved-method route) calls
\* recordSuccessfulPaystackCharge
CallRecordSuccessful(p, params) ==
    /\ kProcs[p].pc = "idle"
    /\ InOrder(p)
    /\ kProcs' = [ kProcs EXCEPT ![p] =
         [ Started("record_successful") EXCEPT !.pc = "record_update",
               !.params = params, !.after = 200 ] ]
    /\ UNCHANGED <<kConfig, kTx, kCredits, kMethods, kGrants, kLock, oVars>>

\* a caller (the webhook or a route) calls recordFailedPaystackCharge
CallRecordFailed(p, organizationId, transactionId, reference) ==
    /\ kProcs[p].pc = "idle"
    /\ InOrder(p)
    /\ kProcs' = [ kProcs EXCEPT ![p] =
         [ Started("record_failed") EXCEPT !.pc = "record_failed",
               !.params = SuccessfulChargeParams(organizationId,
                   transactionId, 0, 0, reference, Unset, EmptyMetadata),
               !.after = 200 ] ]
    /\ UNCHANGED <<kConfig, kTx, kCredits, kMethods, kGrants, kLock, oVars>>

\* the saved-method top-up route up to its call of Paystack: the checks,
\* the fees and the pending row, which takes the id newId
paystackTopUpWithSavedMethod(config, methods, organizationId, amount, paymentMethodId, newId) ==
    LET start == [ Started("saved_topup") EXCEPT !.methodId = paymentMethodId ]
        paymentMethod == methods[paymentMethodId]
        feeBreakdown == PaystackFees(amount, "card")
    IN  IF config.PAYSTACK_SECRET_KEY \in { Unset, "" }
        THEN [ inserts |-> FALSE, proc |-> Replied(start, 400) ]
        ELSE IF ~paymentMethod.exists
                \/ paymentMethod.organizationId # organizationId
        THEN [ inserts |-> FALSE, proc |-> Replied(start, 404) ]
        ELSE IF paymentMethod.provider # "paystack"
                \/ paymentMethod.paystackAuthorizationCode = NULL
        THEN [ inserts |-> FALSE, proc |-> Replied(start, 400) ]
        ELSE [ inserts |-> TRUE,
               proc |-> [ start EXCEPT
                 !.pc = "charge",
                 !.wrote = TRUE,
                 !.params = SuccessfulChargeParams(
                     organizationId, newId, feeBreakdown.totalAmount,
                     feeBreakdown.baseAmount, "charge-reference",
                     paymentMethod.paystackAuthorizationCode,
                     EmptyMetadata) ] ]

\* POST /paystack/top-up-with-saved-method arrives
PaystackTopUpWithSavedMethod(p, organizationId, amount, paymentMethodId) ==
    /\ kProcs[p].pc = "idle"
    /\ FreeTxIds(kTx) # {}
    /\ LET newId == CHOOSE id \in FreeTxIds(kTx) : TRUE
           res == paystackTopUpWithSavedMethod(kConfig, kMethods,
                      organizationId, amount, paymentMethodId, newId)
       IN  /\ kProcs' = [ kProcs EXCEPT ![p] = res.proc ]
           /\ kTx' = IF res.inserts
                     THEN insertTransaction(kTx, newId, organizationId,
                                            PaystackFees(amount, "card"))
                     ELSE kTx
    /\ UNCHANGED <<kConfig, kCredits, kMethods, kGrants, kLock, oVars>>

\* chargePaystackAuthorization returns or throws: the route records the
\* charge as successful whenever it returns, as failed when it throws
ChargeAuthorization(p, response) ==
    LET proc == kProcs[p]
        charge == chargePaystackAuthorization(kConfig, response)
    IN  /\ proc.pc = "charge"
        /\ kProcs' = [ kProcs EXCEPT ![p] =
             IF charge.throws
             THEN [ proc EXCEPT !.pc = "record_failed", !.after = 400,
                                !.params.reference = "" ]
             ELSE [ proc EXCEPT !.pc = "record_update", !.after = 200,
                                !.charge = charge.data.status ] ]
        /\ UNCHANGED <<kConfig, kTx, kCredits, kMethods, kGrants, kLock, oVars>>

\* POST /paystack/initialize-topup: the pending row, then the reference of
\* the initialized transaction or, when Paystack fails, a failed row
InitializePaystackTopUp(p, organizationId, amount, response) ==
    LET start == Started("initialize")
        feeBreakdown == PaystackFees(amount, "card")
        initialization == paystackRequest(kConfig, response)
    IN  /\ kProcs[p].pc = "idle"
        /\ FreeTxIds(kTx) # {}
        /\ IF kConfig.PAYSTACK_SECRET_KEY \in { Unset, "" }
           THEN /\ kProcs' = [ kProcs EXCEPT ![p] = Replied(start, 400) ]
                /\ UNCHANGED kTx
           ELSE LET newId == CHOOSE id \in FreeTxIds(kTx) : TRUE
                    inserted == insertTransaction(kTx, newId, organizationId,
                                                  feeBreakdown)
                IN  IF initialization.throws
                    THEN /\ kTx' = recordFailedPaystackCharge(inserted,
                                                              newId, "")
                         /\ kProcs' = [ kProcs EXCEPT ![p] =
                              [ Replied(start, 400) EXCEPT !.wrote = TRUE ] ]
                    ELSE /\ kTx' = [ inserted EXCEPT
                                ![newId].paystackReference = newId ]
                         /\ kProcs' = [ kProcs EXCEPT ![p] =
                              [ Replied(start, 200) EXCEPT !.wrote = TRUE ] ]
        /\ UNCHANGED <<kConfig, kCredits, kMethods, kGrants, kLock, oVars>>

\* POST /payment-methods/default, the checks and the first update: every
\* method of the organization stops being the default
SetDefaultClear(p, organizationId, paymentMethodId) ==
    LET start == [ Started("set_default") EXCEPT !.methodId = paymentMethodId,
                       !.params.organizationId = organizationId ]
        paymentMethod == kMethods[paymentMethodId]
    IN  /\ kProcs[p].pc = "idle"
        /\ IF ~paymentMethod.exists
              \/ paymentMethod.organizationId # organizationId
           THEN /\ kProcs' = [ kProcs EXCEPT ![p] = Replied(start, 404) ]
                /\ UNCHANGED kMethods
           ELSE IF paymentMethod.provider # "stripe"
                   \/ paymentMethod.stripePaymentMethodId = NULL
           THEN /\ kProcs' = [ kProcs EXCEPT ![p] = Replied(start, 400) ]
                /\ UNCHANGED kMethods
           ELSE /\ kMethods' = clearDefaults(kMethods, organizationId)
                /\ kProcs' = [ kProcs EXCEPT ![p] =
                     [ start EXCEPT !.pc = "set_default", !.wrote = TRUE ] ]
        /\ UNCHANGED <<kConfig, kTx, kCredits, kGrants, kLock, oVars>>

\* POST /payment-methods/default, the second update: the method becomes
\* the default
SetDefaultSet(p) ==
    LET proc == kProcs[p]
    IN  /\ proc.pc = "set_default"
        /\ kMethods' = [ kMethods EXCEPT ![proc.methodId].isDefault =
                           kMethods[proc.methodId].exists ]
        /\ kProcs' = [ kProcs EXCEPT ![p] = Replied(proc, 200) ]
        /\ UNCHANGED <<kConfig, kTx, kCredits, kGrants, kLock, oVars>>

\* the admin and Paystack components are idle
LaterIdle == AdminIdle /\ PaystackIdle

\* the components below the first four are idle
OthersIdle ==
    FeesIdle /\ PaymentsIdle /\ ModelsIdle /\ LedgerIdle /\ CacheIdle
    /\ LaterIdle

----------------------------------------------------------------------------
(* Specifications.                                                         *)

\* transformResponseToOpenai on every argument tuple of the bounded sets
InitTransform ==
    /\ \E p \in Providers, j \in JsonPayloads, f \in FinishReasons,
          pt \in TokenCounts, ct \in TokenCounts, tt \in TokenCounts,
          rt \in TokenCounts, n \in Clock, x \in Extras :
            tArgs = TransformArgs(p, j, f, pt, ct, tt, rt, n, x)
    /\ tResp = <<>>
    /\ env \in { [ name \in EnvVarNames |-> Unset ] }
    /\ EnvIdle /\ QueueIdle /\ DispatchIdle /\ OthersIdle

NextTransform == Transform

SpecTransform == InitTransform /\ [][NextTransform]_vars

\* getProviderEnv on every provider and environment
InitEnv ==
    /\ eProvider \in EnvProviders
    /\ env \in Environments
    /\ eResult = NoResult
    /\ TransformIdle /\ QueueIdle /\ DispatchIdle /\ OthersIdle

NextEnv == GetProviderEnv

SpecEnv == InitEnv /\ [][NextEnv]_vars

\* the log queue between the gateway and the consumer
InitQueue ==
    /\ QueueIdle
    /\ env \in { [ name \in EnvVarNames |-> Unset ] }
    /\ TransformIdle /\ EnvIdle /\ DispatchIdle /\ OthersIdle

NextQueue ==
    \/ \E r \in Records : PublishToQueue(r)
    \/ ConsumeFromQueue
    \/ PersistBatch
    \/ CrashConsumer

SpecQueue == InitQueue /\ [][NextQueue]_vars

\* the attempt loop on every candidate list and environment
InitDispatch ==
    /\ dCands \in CandidateLists
    /\ env \in Environments
    /\ dIdx = 1
    /\ dPhase = "precheck"
    /\ dToken = Unset
    /\ dCalls = <<>>
    /\ dSkipped = {}
    /\ dOutcome = Pending
    /\ dStream \in BOOLEAN
    /\ dBalance \in { 0, MaxBalance }
    /\ dTries = 0
    /\ dSent = 0
    /\ dFrame = "<none>"
    /\ dStatus = 0
    /\ dLog = <<>>
    /\ TransformIdle /\ EnvIdle /\ QueueIdle /\ OthersIdle

NextDispatch ==
    \/ Precheck
    \/ ResolveCredential
    \/ SendUpstream
    \/ StreamDelta
    \/ StreamEnd
    \/ StreamAbort
    \/ ClientDisconnect
    \/ Exhausted
    \/ EnqueueLog

SpecDispatch == InitDispatch /\ [][NextDispatch]_vars

\* calculateFees of either module on every input of the bounded sets
InitFees ==
    /\ \E a \in FeeAmounts, plan \in OrganizationPlans,
          provider \in PaymentProviders \cup {Unset},
          country \in CardCountries \cup {Unset},
          channel \in PaymentChannels \cup {Unset} :
            fArgs = FeeCalculationInput(a, plan, provider, country, channel)
    /\ fOut = <<>>
    /\ env \in { [ name \in EnvVarNames |-> Unset ] }
    /\ TransformIdle /\ EnvIdle /\ QueueIdle /\ DispatchIdle
    /\ PaymentsIdle /\ ModelsIdle /\ LedgerIdle /\ CacheIdle /\ LaterIdle

NextFees ==
    \/ CalculateFees
    \/ CalculateFeesLibTypes

SpecFees == InitFees /\ [][NextFees]_vars

\* the payments routes on every table of two rows, of which the first
\* may be a default method
InitPayments ==
    /\ pMethods \in { t \in [ PaymentMethodIds -> PaymentMethodRows ] :
                        \A i \in PaymentMethodIds \ {"m1"} : ~t[i].isDefault }
    /\ pReply = NoReply
    /\ pCount = 0
    /\ env \in { [ name \in EnvVarNames |-> Unset ] }
    /\ TransformIdle /\ EnvIdle /\ QueueIdle /\ DispatchIdle /\ FeesIdle
    /\ ModelsIdle /\ LedgerIdle /\ CacheIdle /\ LaterIdle

NextPayments ==
    \/ SetDefaultPaymentMethod
    \/ DeletePaymentMethod
    \/ TopUpWithSavedMethod
    \/ CalculateFeesRoute

SpecPayments == InitPayments /\ [][NextPayments]_vars

\* GET /v1/models on every catalog, query and time of the bounded sets
InitModels ==
    /\ mCatalog \in [ ModelIds -> [ deactivated_at : Timestamps,
                                    deprecated_at : Timestamps ] ]
    /\ mNow \in 1..MaxTime
    /\ mQuery \in [ include_deactivated : QueryValues,
                    exclude_deprecated : QueryValues ]
    /\ mResp = <<>>
    /\ env \in { [ name \in EnvVarNames |-> Unset ] }
    /\ TransformIdle /\ EnvIdle /\ QueueIdle /\ DispatchIdle /\ FeesIdle
    /\ PaymentsIdle /\ LedgerIdle /\ CacheIdle /\ LaterIdle

NextModels == ListModels

SpecModels == InitModels /\ [][NextModels]_vars

\* tasks debiting the ledger concurrently, on every opening balance and
\* request cost
InitLedger ==
    /\ lBalance \in [ LedgerOrgs -> 0..MaxBalance ]
    /\ lOpening = lBalance
    /\ lDebited = {}
    /\ lCost \in [ RequestIds -> 1..MaxCost ]
    /\ lCalls = [ t \in Tasks |-> NoDebitCall ]
    /\ env \in { [ name \in EnvVarNames |-> Unset ] }
    /\ TransformIdle /\ EnvIdle /\ QueueIdle /\ DispatchIdle /\ FeesIdle
    /\ PaymentsIdle /\ ModelsIdle /\ CacheIdle /\ LaterIdle

NextLedger ==
    \/ \E t \in Tasks, orgId \in LedgerOrgs, requestId \in RequestIds :
        CallDebit(t, orgId, requestId)
    \/ \E t \in Tasks : LedgerDebit(t)

SpecLedger == InitLedger /\ [][NextLedger]_vars

\* callers of getOrCompute on an empty cache
InitCache ==
    /\ cCache = [ k \in CacheKeys |-> NoValue ]
    /\ cCell = [ k \in CacheKeys |-> 0 ]
    /\ cFills = [ k \in CacheKeys |-> 0 ]
    /\ cFailed = [ k \in CacheKeys |-> 0 ]
    /\ cCallers = [ c \in Callers |-> NoCaller ]
    /\ env \in { [ name \in EnvVarNames |-> Unset ] }
    /\ TransformIdle /\ EnvIdle /\ QueueIdle /\ DispatchIdle /\ FeesIdle
    /\ PaymentsIdle /\ ModelsIdle /\ LedgerIdle /\ LaterIdle

NextCache ==
    \/ \E c \in Callers, key \in CacheKeys : GetOrCompute(c, key)
    \/ \E c \in Callers, value \in CacheValues : FillerReturns(c, value)
    \/ \E c \in Callers : FillerFails(c)
    \/ \E c \in Callers : WaiterWakes(c)

SpecCache == InitCache /\ [][NextCache]_vars

\* one admin request on every ADMIN_EMAILS value and user of the bounded sets
InitAdmin ==
    /\ aEnv \in { UnsetVar } \cup
                { SetVar(s) : s \in Strings(EnvChars, MaxEnvLen) }
    /\ aUser \in { NoAuthUser, AuthUser(NullEmail) } \cup
                 { AuthUser(Email(s)) : s \in Strings(EmailChars, MaxEmailLen) }
    /\ aReply = NoAdminReply
    /\ env \in { [ name \in EnvVarNames |-> Unset ] }
    /\ TransformIdle /\ EnvIdle /\ QueueIdle /\ DispatchIdle /\ FeesIdle
    /\ PaymentsIdle /\ ModelsIdle /\ LedgerIdle /\ CacheIdle /\ PaystackIdle

NextAdmin ==
    \/ GetMetrics
    \/ GetTokenMetrics

SpecAdmin == InitAdmin /\ [][NextAdmin]_vars

\* the signatures a sender can put on a body: none, junk, or the HMAC under
\* a secret it holds
Signatures(rawBody) ==
    { NoSignature, EmptySignature, JunkSignature(HexDigestLength),
      JunkSignature(ShortLength) }
        \cup { createHmac(secret, rawBody) :
                 secret \in { "whsec", "sk", "guess" } }

\* the metadata a charge event carries
EventMetadata ==
    { EmptyMetadata } \cup
    { ChargeMetadata(o, t, b.baseAmount, b.feeBreakdown, s.save,
                     s.makeDefault) :
        o \in KOrgs, t \in TxIds,
        b \in { [ baseAmount |-> NullNum, feeBreakdown |-> NoFeeBreakdown ],
                [ baseAmount |-> NullNum,
                  feeBreakdown |-> PaystackFees(MinTopUp, "card") ] }
              \cup { [ baseAmount |-> Num(Mills(a)),
                       feeBreakdown |-> PaystackFees(MinTopUp, "card") ] :
                       a \in PaystackAmounts },
        s \in [ save : BOOLEAN, makeDefault : BOOLEAN ] }

\* the amount of a charge event, in the minor unit
EventAmount == 200

WebhookBodies ==
    { NoBody }
        \cup { WebhookBody(TRUE, "charge.success",
                           ChargeEventData(EventAmount, "event-reference",
                                           m, a)) :
                 m \in EventMetadata, a \in AuthCodes }
        \cup { WebhookBody(TRUE, e,
                           ChargeEventData(EventAmount, "event-reference",
                               ChargeMetadata(o, t, NullNum, NoFeeBreakdown,
                                              FALSE, FALSE), Unset)) :
                 e \in { "charge.failed", "transfer.success" },
                 o \in KOrgs, t \in TxIds }

\* organization o1 has a Paystack and a Stripe method, of which the one
\* numbered default (if any) is the default
InitialMethodTable(default) ==
    [ id \in MethodIds |->
        IF id = 1 THEN PaymentMethod(TRUE, "o1", "paystack", NULL, "AUTH_1",
                                     default = 1)
        ELSE IF id = 2 THEN PaymentMethod(TRUE, "o1", "stripe", "pm_1", NULL,
                                          default = 2)
        ELSE NoPaymentMethod ]

\* the transaction table after initialize-topup requests of the given
\* organizations: pending rows with their Paystack reference
InitialTransactions(owners) ==
    [ id \in TxIds |->
        IF id \in DOMAIN owners
        THEN [ insertTransaction([ t \in TxIds |-> NoTransaction ], id,
                                 owners[id],
                                 PaystackFees(MinTopUp, "card"))[id]
                 EXCEPT !.paystackReference = id ]
        ELSE NoTransaction ]

\* what every Paystack specification starts with
PaystackStart(config, owners, default) ==
    /\ kConfig = config
    /\ kTx = InitialTransactions(owners)
    /\ kCredits = [ o \in KOrgs |-> 0 ]
    /\ kMethods = InitialMethodTable(default)
    /\ kGrants = [ id \in TxIds |-> <<>> ]
    /\ kLock = [ id \in TxIds |-> 0 ]
    /\ kProcs = [ p \in Procs |-> NoProc ]
    /\ env \in { [ name \in EnvVarNames |-> Unset ] }
    /\ TransformIdle /\ EnvIdle /\ QueueIdle /\ DispatchIdle /\ FeesIdle
    /\ PaymentsIdle /\ ModelsIdle /\ LedgerIdle /\ CacheIdle /\ AdminIdle

Configured == [ PAYSTACK_WEBHOOK_SECRET |-> "whsec",
                PAYSTACK_SECRET_KEY |-> "sk" ]

\* one webhook request on every configuration of the two secrets, every
\* signature and every body; t1 is a pending top-up of organization o1
InitWebhook ==
    \E config \in PaystackConfigs, default \in 0..InitialMethods :
        PaystackStart(config, [ t1 |-> "o1" ], default)

NextWebhook ==
    \/ \E rawBody \in WebhookBodies :
         \E signature \in Signatures(rawBody) : Webhook(1, signature, rawBody)
    \/ RecordUpdate(1)
    \/ RecordCommit(1)
    \/ RecordFailed(1)

SpecWebhook == InitWebhook /\ [][NextWebhook]_vars

\* requests to the two top-up routes, sequential or concurrent
InitTopUp ==
    \E config \in PaystackConfigs :
        PaystackStart(config, << >>, 1)

NextTopUp ==
    \/ \E p \in Procs, o \in KOrgs, a \in PaystackAmounts, m \in MethodIds :
         PaystackTopUpWithSavedMethod(p, o, a, m)
    \/ \E p \in Procs, response \in HttpResponses :
         ChargeAuthorization(p, response)
    \/ \E p \in Procs, o \in KOrgs, a \in PaystackAmounts,
          response \in HttpResponses :
         InitializePaystackTopUp(p, o, a, response)
    \/ \E p \in Procs : RecordUpdate(p)
    \/ \E p \in Procs : RecordCommit(p)
    \/ \E p \in Procs : RecordFailed(p)

SpecTopUp == InitTopUp /\ [][NextTopUp]_vars

\* the arguments of the record calls: either of two charges reported for a
\* transaction, which differ in every amount and in the reference
ReportedCharges ==
    { [ amountPaid |-> PaystackFees(a, "card").totalAmount,
        creditAmount |-> Mills(a),
        reference |-> IF a = MinTopUp THEN "reference-a" ELSE "reference-b" ] :
        a \in { MinTopUp, MinTopUp + 2 } }

RecordParams(saves) ==
    { SuccessfulChargeParams(o, t, c.amountPaid, c.creditAmount, c.reference,
          s.authorization_code,
          ChargeMetadata(o, t, NullNum, NoFeeBreakdown, s.save,
                         s.makeDefault)) :
        o \in KOrgs, t \in TxIds, c \in ReportedCharges, s \in saves }

NoSave == { [ authorization_code |-> Unset, save |-> FALSE,
              makeDefault |-> FALSE ] }

Saves == [ authorization_code : AuthCodes, save : { TRUE },
           makeDefault : BOOLEAN ]

\* record calls for two pending top-ups, sequential or concurrent
InitRecords ==
    PaystackStart(Configured, [ t1 |-> "o1", t2 |-> "o2" ], 1)

NextRecords ==
    \/ \E p \in Procs, params \in RecordParams(NoSave) :
         CallRecordSuccessful(p, params)
    \/ \E p \in Procs, t \in TxIds :
         CallRecordFailed(p, kTx[t].organizationId, t, "event-reference")
    \/ \E p \in Procs : RecordUpdate(p)
    \/ \E p \in Procs : RecordCommit(p)
    \/ \E p \in Procs : RecordFailed(p)

SpecRecords == InitRecords /\ [][NextRecords]_vars

\* set-default requests and record calls that save a payment method,
\* sequential or concurrent
InitDefaults ==
    \E default \in 0..InitialMethods :
        PaystackStart(Configured, [ t1 |-> "o1", t2 |-> "o1" ], default)

NextDefaults ==
    \/ \E p \in Procs, params \in RecordParams(Saves) :
         /\ params.organizationId = "o1"
         /\ params.creditAmount = Mills(MinTopUp)
         /\ CallRecordSuccessful(p, params)
    \/ \E p \in Procs, o \in KOrgs, m \in MethodIds : SetDefaultClear(p, o, m)
    \/ \E p \in Procs : SetDefaultSet(p)
    \/ \E p \in Procs : RecordUpdate(p)
    \/ \E p \in Procs : RecordCommit(p)

SpecDefaults == InitDefaults /\ [][NextDefaults]_vars

----------------------------------------------------------------------------
(* Properties of transformResponseToOpenai (SpecTransform).                *)

Called == tResp # <<>>
Resp == tResp[1]

\* the branches that build the response from the extracted arguments
BuildsResponse(a) ==
    \/ a.usedProvider \in { "google-ai-studio", "google-vertex", "anthropic",
                            "aws-bedrock" }
    \/ a.usedProvider \in { "inference.net", "together.ai", "groq" }
        /\ (~Has(a.json, "id") \/ a.json.id = <<>>)
    \/ a.usedProvider = "openai" /\ Has(a.json, "output")

\* C1: every returned response has usage.prompt_tokens >= 1 and
\* usage.total_tokens >= 1, for every provider and every upstream payload.
C1_UsageFloor ==
    Called =>
        /\ Has(Resp, "usage")
        /\ Has(Resp.usage, "prompt_tokens")
        /\ Has(Resp.usage, "total_tokens")
        /\ Resp.usage.prompt_tokens >= 1
        /\ Resp.usage.total_tokens >= 1

\* C2: when the upstream total token count is absent, the built response's
\* usage.total_tokens equals its own usage.prompt_tokens +
\* usage.completion_tokens + reasoning tokens.
C2_TotalIsSumOfOwnParts ==
    (Called /\ BuildsResponse(tArgs) /\ IsNull(tArgs.totalTokens)) =>
        Resp.usage.total_tokens =
            Resp.usage.prompt_tokens + Resp.usage.completion_tokens
                + (IF Has(Resp.usage, "reasoning_tokens")
                   THEN Resp.usage.reasoning_tokens ELSE 0)

\* C3: for provider anthropic, end_turn maps to stop, tool_use to
\* tool_calls, max_tokens to length, and every other upstream finish
\* reason (null included) to stop.
C3_AnthropicFinishReasonMapping ==
    (Called /\ tArgs.usedProvider = "anthropic") =>
        /\ Len(Resp.choices) = 1
        /\ tArgs.finishReason = "end_turn" =>
                Resp.choices[1].finish_reason = "stop"
        /\ tArgs.finishReason = "tool_use" =>
                Resp.choices[1].finish_reason = "tool_calls"
        /\ tArgs.finishReason = "max_tokens" =>
                Resp.choices[1].finish_reason = "length"
        /\ tArgs.finishReason \notin { "end_turn", "tool_use", "max_tokens" } =>
                Resp.choices[1].finish_reason = "stop"

\* C3 witness: an anthropic response whose upstream reason max_tokens was
\* translated to length.
C3_Witness ==
    /\ Called
    /\ tArgs.usedProvider = "anthropic"
    /\ tArgs.finishReason = "max_tokens"
    /\ Resp.choices[1].finish_reason = "length"

\* C4: in every provider branch and for every upstream finish reason, each
\* choice of the returned response has a finish_reason among stop, length,
\* tool_calls and content_filter.
C4_FinishReasonInEnum ==
    (Called /\ Has(Resp, "choices")) =>
        \A i \in 1..Len(Resp.choices) :
            Resp.choices[i].finish_reason
                \in { "stop", "length", "tool_calls", "content_filter" }

\* C5: for every provider and every upstream JSON object, the result has
\* model = usedProvider/baseModelName and the metadata block
\* {requested_model, requested_provider, used_model, used_provider,
\* underlying_used_model} filled from the matching arguments.
C5_ModelAndMetadata ==
    Called =>
        /\ Has(Resp, "model") /\ Has(Resp, "metadata")
        /\ Resp.model = <<tArgs.usedProvider, "/", tArgs.baseModelName>>
        /\ DOMAIN Resp.metadata =
                { "requested_model", "requested_provider", "used_model",
                  "used_provider", "underlying_used_model" }
        /\ Resp.metadata.requested_model = tArgs.requestedModel
        /\ Resp.metadata.requested_provider = tArgs.requestedProvider
        /\ Resp.metadata.used_model = tArgs.baseModelName
        /\ Resp.metadata.used_provider = tArgs.usedProvider
        /\ Resp.metadata.underlying_used_model = tArgs.usedModel

\* C5 witness: a provider without a branch of its own, answering with a
\* bare object, got the model and metadata of the call.
C5_Witness ==
    /\ Called
    /\ tArgs.usedProvider = "mistral"
    /\ ~Has(tArgs.json, "choices")
    /\ tArgs.requestedProvider # NULL
    /\ Resp.metadata.underlying_used_model = "upstream-model-v1"
    /\ Resp.model = <<"mistral", "/", "base-model">>

\* C6: for provider openai with a chat-completions payload (no output
\* array), every field of the upstream object other than model and
\* metadata (id, choices and usage among them) is returned as received,
\* and model and metadata are the only fields added or changed.
C6_OpenaiPassthroughFrame ==
    (Called /\ tArgs.usedProvider = "openai" /\ ~Has(tArgs.json, "output")) =>
        /\ DOMAIN Resp = DOMAIN tArgs.json \cup { "model", "metadata" }
        /\ \A f \in DOMAIN tArgs.json \ { "model", "metadata" } :
                Resp[f] = tArgs.json[f]

\* C6 witness: the openai happy path with reasoning content extracted:
\* id, choices and usage 5/1/6 come back untouched.
C6_Witness ==
    /\ Called
    /\ tArgs.usedProvider = "openai"
    /\ tArgs.reasoningContent # NULL
    /\ ~Has(tArgs.json, "output")
    /\ Has(tArgs.json, "usage") /\ Has(tArgs.json, "choices")
    /\ tArgs.json.usage.prompt_tokens = 5
    /\ Resp.usage = tArgs.json.usage
    /\ Resp.id = <<"x">>
    /\ Resp.choices = tArgs.json.choices
    /\ Resp.model = <<"openai", "/", "base-model">>

----------------------------------------------------------------------------
(* Properties of the log queue (SpecQueue).                                *)

\* C7: a log record that was enqueued is never lost: at every moment it is
\* already in the durable store or can still reach it (it is in the Redis
\* list or held by a live consumer), whatever crashes happened after the
\* enqueue.
C7_EnqueuedRecordNotLost ==
    \A r \in pushed :
        \/ r \in store
        \/ r \in { JSONParse(t) : t \in Range(queue) }
        \/ r \in { JSONParse(t) : t \in Range(batch) }

\* C8: publishToQueue never drops a record silently: a call that returned
\* normally appended the record to the list, every other call failed with
\* an error thrown to the caller, and no call did both.
C8_PublishNeverDropsSilently ==
    /\ returned \subseteq pushed
    /\ returned \cap threw = {}
    /\ pubCall # NoCall =>
        /\ pubCall.outcome \in { "returned", "threw" }
        /\ pubCall.message \in returned \cup threw
        /\ pubCall.outcome = "returned" => pubCall.message \in pushed
        /\ pubCall.outcome = "threw" => pubCall.message \in threw

\* C8 witness: Redis failed one LPUSH, which surfaced as an error to the
\* caller and left the record out of the list, and accepted another.
C8_Witness ==
    /\ pubCall # NoCall
    /\ pubCall.outcome = "threw"
    /\ pubCall.message \notin pushed
    /\ returned # {}
    /\ \A r \in returned : r \in pushed

----------------------------------------------------------------------------
(* Properties of getProviderEnv (SpecEnv).                                 *)

EnvCalled == eResult # NoResult

\* the provider has a mapped variable and that variable is set, non-empty
KeyConfigured(provider, e) ==
    /\ provider \in { "openai", "anthropic", "azure" }
    /\ e[ IF provider = "openai" THEN "LLM_OPENAI_API_KEY"
          ELSE IF provider = "anthropic" THEN "LLM_ANTHROPIC_API_KEY"
          ELSE "LLM_AZURE_API_KEY" ] \notin { Unset, "" }

ReturnedToken == ~eResult.threw /\ Has(eResult, "token")
Failed == eResult.threw /\ ~Has(eResult, "token")

\* C9: getProviderEnv returns a token exactly when the provider has a
\* mapped environment variable, that variable is set and non-empty, and
\* (for azure) LLM_AZURE_RESOURCE is set; otherwise it fails with an error
\* and returns no token.
C9_TokenIffConfiguredResourceSet ==
    EnvCalled =>
        /\ ReturnedToken \/ Failed
        /\ ReturnedToken <=>
            /\ KeyConfigured(eProvider, env)
            /\ eProvider = "azure" => env["LLM_AZURE_RESOURCE"] # Unset

\* C9 amended: getProviderEnv returns a token (the value of the provider's
\* variable) exactly when the provider has a mapped environment variable,
\* that variable is set and non-empty, and (for azure) LLM_AZURE_RESOURCE
\* is set and non-empty; otherwise it fails with an error and no token.
C9_TokenIffConfiguredResourceNonEmpty ==
    EnvCalled =>
        /\ ReturnedToken \/ Failed
        /\ ReturnedToken <=>
            /\ KeyConfigured(eProvider, env)
            /\ eProvider = "azure" =>
                    env["LLM_AZURE_RESOURCE"] \notin { Unset, "" }
        /\ ReturnedToken => eResult.token = SecretOf(getProviderEnvVar(eProvider))
        /\ Failed => eResult.status = 400

\* C9 witness: azure with its key set and LLM_AZURE_RESOURCE set to the
\* empty string was refused.
C9_Witness ==
    /\ EnvCalled
    /\ eProvider = "azure"
    /\ env["LLM_AZURE_API_KEY"] = "azure-key"
    /\ env["LLM_AZURE_RESOURCE"] = ""
    /\ Failed

----------------------------------------------------------------------------
(* Properties of the attempt loop (SpecDispatch).                          *)

\* no gateway-owned credential is available for the provider
NoCredential(provider) ==
    \/ ~KeyConfigured(provider, env)
    \/ provider = "azure" /\ env["LLM_AZURE_RESOURCE"] \in { Unset, "" }

Finished == dPhase \in { "log", "done" }
\* the LogRecord the engine handed to publishToQueue
Logged == dLog[1].message
\* the position of a provider in the candidate list
CandidateIndex(provider) ==
    CHOOSE i \in 1..Len(dCands) : dCands[i] = provider

\* C13: once any byte of a streamed response has been delivered, an
\* upstream failure in that stream is never retried and never moved to
\* another candidate: no upstream call is made after a delivery, the
\* request stays with the candidate that delivered, and an abort then ends
\* it with an error SSE frame.  A stream abort followed by a retry or an
\* advance happened while nothing had been delivered.
C13_SealedAfterFirstByte ==
    /\ \A k \in 1..Len(dCalls) : dCalls[k].delivered = 0
    /\ dSent > 0 =>
        /\ dPhase \in { "stream", "log", "done" }
        /\ dIdx <= Len(dCands)
        /\ dCalls[Len(dCalls)].provider = dCands[dIdx]
        /\ dOutcome \in { Pending, "ok", "StreamMidFlight",
                          "client_disconnect" }
        /\ dCalls[Len(dCalls)].result = "stream_abort" =>
            /\ dOutcome = "StreamMidFlight"
            /\ dFrame = "error"
            /\ Finished
    /\ dOutcome = "StreamMidFlight" => dSent > 0 /\ dFrame = "error"
    /\ \A k \in 1..Len(dCalls) :
        (dCalls[k].result = "stream_abort" /\ dOutcome # "StreamMidFlight")
            => dSent = 0 \/ k < Len(dCalls)

\* C13 witness: the stream of the first candidate aborted after a delivery
\* and the request ended there with an error frame, although a second
\* candidate with a credential was left
C13_Witness ==
    /\ dPhase = "done"
    /\ dOutcome = "StreamMidFlight"
    /\ dSent > 0
    /\ dFrame = "error"
    /\ Len(dCands) = 2
    /\ dIdx = 1
    /\ ~NoCredential(dCands[2])
    /\ Len(dCalls) = 1

\* the calls so far all failed with Transient
AllTransient ==
    /\ dCalls # <<>>
    /\ \A k \in 1..Len(dCalls) : dCalls[k].result = "transient"

\* C14: if every candidate returns a Transient failure (after the bounded
\* retries on each candidate), the attempt loop ends, the caller receives
\* 502 UpstreamUnavailable, and the log record lists every attempt in the
\* order it was made.
C14_ExhaustionAfterTransients ==
    \* the loop is bounded and never stuck before the end of the request
    /\ Len(dCalls) <= Len(dCands) * MaxAttempts
    /\ dPhase \notin { "idle", "done" } => ENABLED NextDispatch
    /\ (Finished /\ AllTransient /\ dOutcome # "client_disconnect") =>
        /\ dOutcome = "UpstreamUnavailable"
        /\ dStatus = 502
        \* each candidate with a credential got every attempt, in order
        /\ \A i \in 1..Len(dCands) : i \notin dSkipped =>
            Cardinality({ k \in 1..Len(dCalls) :
                            dCalls[k].provider = dCands[i] }) = MaxAttempts
        /\ \A k, l \in 1..Len(dCalls) : k < l =>
            CandidateIndex(dCalls[k].provider)
                <= CandidateIndex(dCalls[l].provider)
        /\ dPhase = "done" =>
            /\ Logged.outcome = "UpstreamUnavailable"
            /\ Logged.attempts = dCalls

\* C14 witness: two candidates, each attempted MaxAttempts times, all
\* Transient; the request ended with 502 and its log holds the chain
C14_Witness ==
    /\ dPhase = "done"
    /\ AllTransient
    /\ Len(dCands) = 2
    /\ Len(dCalls) = 2 * MaxAttempts
    /\ dStatus = 502
    /\ Len(Logged.attempts) = 2 * MaxAttempts

\* C15: a request whose credit precheck fails gets a 402-style error,
\* causes zero upstream calls, and is logged with outcome
\* InsufficientCredits.
C15_PrecheckFailure ==
    (dPhase # "idle" /\ dBalance < CostEstimate) =>
        /\ dCalls = <<>>
        /\ dPhase \in { "precheck", "log", "done" }
        /\ Finished => dOutcome = "InsufficientCredits" /\ dStatus = 402
        /\ dPhase = "done" =>
            /\ Len(dLog) = 1
            /\ Logged.outcome = "InsufficientCredits"
            /\ Logged.attempts = <<>>
            /\ dLog[1].outcome = "returned" =>
                   queue = << JSONStringify(Logged) >>

\* C15 witness: an organization without credits was refused with 402 and
\* the refusal is in the log queue
C15_Witness ==
    /\ dPhase = "done"
    /\ dBalance = 0
    /\ dStatus = 402
    /\ dCalls = <<>>
    /\ Len(queue) = 1
    /\ JSONParse(queue[1]).outcome = "InsufficientCredits"

C16_OnePublishCall ==
    /\ Len(dLog) <= 1
    /\ dPhase = "done" =>
        /\ Len(dLog) = 1
        /\ Logged.outcome = dOutcome
        /\ dOutcome # Pending

----------------------------------------------------------------------------
(* Properties of calculateFees (SpecFees).                                 *)

FeesCalled == fOut # <<>>
Fees == fOut[1].fees

\* c is m rounded to cents: a whole number of cents at most half a cent away
IsRoundedToCents(c, m) == c % 10 = 0 /\ c - m <= 5 /\ m - c <= 5

\* paymentProvider omitted means stripe, channel omitted means card
ChargedProvider == Default(fArgs.paymentProvider, "stripe")
ChargedChannel == Default(fArgs.channel, "card")

\* C18: calculateFees charges, for Stripe, a provider fee of 0.35 USD plus
\* 2.9% of the amount and a 1.5% international fee only when a card country
\* is given and is not US; for Paystack 1.5% of the amount for mobile money
\* and a flat 10 plus 3.5% for cards, with no international fee; omitting
\* paymentProvider gives the Stripe result; every component is rounded to
\* cents.
C18_FeeSchedule ==
    FeesCalled =>
        /\ Fees.paymentProvider = ChargedProvider
        /\ ChargedProvider = "stripe" =>
            /\ IsRoundedToCents(Fees.providerFee, 350 + 29 * fArgs.amount)
            /\ IsRoundedToCents(Fees.internationalFee,
                    IF fArgs.cardCountry \notin {Unset, "US"}
                    THEN 15 * fArgs.amount ELSE 0)
        /\ ChargedProvider = "paystack" =>
            /\ IsRoundedToCents(Fees.providerFee,
                    IF ChargedChannel = "mobile_money"
                    THEN 15 * fArgs.amount
                    ELSE 10000 + 35 * fArgs.amount)
            /\ Fees.internationalFee = 0
        /\ \A f \in { "providerFee", "internationalFee", "planFee",
                      "totalFees", "totalAmount" } : Fees[f] % 10 = 0

\* the same schedule, of the calls into fees.ts alone
C18_FeesTsFollowsSchedule ==
    (FeesCalled /\ fOut[1].module = "fees.ts") => C18_FeeSchedule

----------------------------------------------------------------------------
(* Properties of the payments routes (SpecPayments).                       *)

\* the row the last request named, as it was when the request arrived
Targeted == pReply.before[pReply.request.paymentMethodId]
TargetExisted == pReply.request.paymentMethodId \in DOMAIN pReply.before

\* C17: the set-default, delete and top-up-with-saved-method routes each
\* reject a payment method whose provider is not stripe with an error, and
\* leave that payment method's row unchanged.
C17_StripeOnlyRoutesRejectOthers ==
    ( /\ pReply.route \in { "set-default", "delete", "top-up" }
      /\ TargetExisted
      /\ Targeted.provider # "stripe" ) =>
        /\ pReply.status >= 400
        /\ pReply.request.paymentMethodId \in DOMAIN pMethods
        /\ pMethods[pReply.request.paymentMethodId] = Targeted

\* C19: POST /payments/calculate-fees, given a paymentMethodId that belongs
\* to the caller's organization, returns a fee breakdown whose
\* paymentProvider is the provider of that payment method, whatever
\* paymentProvider override the request carries.
C19_FeesTrackMethodProvider ==
    ( /\ pReply.route = "calculate-fees"
      /\ pReply.status = 200
      /\ TargetExisted
      /\ pReply.caller \in DOMAIN MemberOf
      /\ Targeted.organizationId = MemberOf[pReply.caller] ) =>
        pReply.body.paymentProvider = Targeted.provider

----------------------------------------------------------------------------
(* Properties of GET /v1/models (SpecModels).                              *)

Listed == mResp[1]

\* C20: GET /v1/models without parameters returns no model whose
\* deactivated_at lies in the past, and with exclude_deprecated=true returns
\* no model whose deprecated_at lies in the past, also when
\* include_deactivated=true is given in the same request.
C20_ListingFilters ==
    mResp # <<>> =>
        /\ mQuery = NoQuery =>
            \A id \in Listed : ~InThePast(mCatalog[id].deactivated_at, mNow)
        /\ mQuery.exclude_deprecated = "true" =>
            \A id \in Listed : ~InThePast(mCatalog[id].deprecated_at, mNow)

\* both parameters are true; a deactivated model that is not deprecated is
\* listed and a deprecated one is left out
C20_Witness ==
    /\ mResp # <<>>
    /\ mQuery.include_deactivated = "true"
    /\ mQuery.exclude_deprecated = "true"
    /\ \E id \in Listed : InThePast(mCatalog[id].deactivated_at, mNow)
    /\ \E id \in ModelIds \ Listed :
        InThePast(mCatalog[id].deprecated_at, mNow)

----------------------------------------------------------------------------
(* Properties of the credit ledger (SpecLedger).                           *)

\* the sum of cost over a set of request ids
RECURSIVE SumOfCosts(_)
SumOfCosts(rids) ==
    IF rids = {} THEN 0
    ELSE LET r == CHOOSE x \in rids : TRUE
         IN  lCost[r] + SumOfCosts(rids \ {r})

\* the debit calls answered so far for an organization and request id
Answered(orgId, requestId) ==
    { t \in DOMAIN lCalls : /\ lCalls[t].pc = "done"
                            /\ lCalls[t].orgId = orgId
                            /\ lCalls[t].requestId = requestId }

\* the request ids for which some debit of the organization was accepted
Accepted(orgId) ==
    { r \in RequestIds :
        \E t \in Answered(orgId, r) : lCalls[t].result = "ok" }

\* C11: two debit(org, rid, x) calls with the same request id, sequential
\* or concurrent, decrease the organization's balance by x exactly once:
\* the balance is the opening balance less x for each request id with an
\* accepted debit, however many calls carried that id, and at most one of
\* those calls is answered ok.
C11_DebitOncePerRequestId ==
    lCalls # <<>> =>
        \A orgId \in LedgerOrgs :
            /\ lBalance[orgId] = lOpening[orgId] - SumOfCosts(Accepted(orgId))
            /\ \A r \in RequestIds :
                Cardinality({ t \in Answered(orgId, r) :
                                lCalls[t].result = "ok" }) <= 1

\* two calls with the same request id that were in flight together have
\* been answered, one ok and one AlreadyDebited, and the balance fell once
C11_Witness ==
    /\ lCalls # <<>>
    /\ \E t1, t2 \in Tasks :
        /\ t1 # t2
        /\ lCalls[t1].pc = "done" /\ lCalls[t2].pc = "done"
        /\ lCalls[t1].orgId = lCalls[t2].orgId
        /\ lCalls[t1].requestId = lCalls[t2].requestId
        /\ lCalls[t2].raced
        /\ lCalls[t1].result = "ok"
        /\ lCalls[t2].result = "AlreadyDebited"
        /\ lBalance[lCalls[t1].orgId] =
               lOpening[lCalls[t1].orgId] - lCalls[t1].amount

----------------------------------------------------------------------------
(* Properties of the response cache (SpecCache).                           *)

\* the callers of a key in a given position
CallersAt(key, pc) ==
    { c \in DOMAIN cCallers : cCallers[c].key = key /\ cCallers[c].pc = pc }

\* C12: with K concurrent getOrCompute(k, filler) calls for the same key
\* the filler runs exactly once and all K callers receive the same value; a
\* filler that fails leaves no cache entry for k and its failure is not
\* served to later callers as a cached result.
C12_SingleFlight ==
    cCallers # <<>> =>
        \A key \in CacheKeys :
            \* one filler at a time, and one run in all unless a run failed
            /\ Cardinality(CallersAt(key, "filling")) <= 1
            /\ cFills[key] <= 1 + cFailed[key]
            /\ CallersAt(key, "done") # {} => cFills[key] >= 1
            \* every caller that got a value got the same one
            /\ \A c1, c2 \in CallersAt(key, "done") :
                \/ cCallers[c1].result = "error"
                \/ cCallers[c2].result = "error"
                \/ cCallers[c1].result = cCallers[c2].result
            \* a failure is stored nowhere and reaches only the caller whose
            \* own filler failed
            /\ cCache[key] \in CacheValues \cup {NoValue}
            /\ cFills[key] = cFailed[key] => cCache[key] = NoValue
            /\ \A c \in CallersAt(key, "done") :
                cCallers[c].result = "error" => cCallers[c].role = "filler"
            /\ Cardinality({ c \in CallersAt(key, "done") :
                               cCallers[c].result = "error" }) = cFailed[key]

\* every caller asked for the same key while its filler ran once: one ran
\* the filler, the others waited, and all hold the same value
C12_Witness ==
    /\ cCallers # <<>>
    /\ \E key \in CacheKeys :
        /\ CallersAt(key, "done") = Callers
        /\ cFills[key] = 1
        /\ Cardinality({ c \in Callers : cCallers[c].role = "waiter" })
               = MaxCallers - 1
        /\ \A c \in Callers : cCallers[c].result = cCache[key]

----------------------------------------------------------------------------
(* Properties of the admin endpoints.                                      *)

AdminServed == aReply # NoAdminReply

\* two characters that differ at most in case
SameLetter(x, y) == x = y \/ { x, y } = { "a", "A" }

\* the email is listed in ADMIN_EMAILS: some entry between two commas (or
\* the ends of the string), without the blanks around it, spells the email
\* up to case
ListedIn(email, var) ==
    /\ var.set
    /\ ~email.null
    /\ email.value # <<>>
    /\ LET s == var.value
           e == email.value
       IN  \E from \in 1..Len(s), to \in 1..Len(s) :
             /\ to - from + 1 = Len(e)
             /\ \A k \in 1..Len(e) : SameLetter(s[from + k - 1], e[k])
             /\ \E start \in 1..from :
                  /\ start = 1 \/ s[start - 1] = ","
                  /\ \A k \in start..(from - 1) : s[k] = " "
             /\ \E end \in to..Len(s) :
                  /\ end = Len(s) \/ s[end + 1] = ","
                  /\ \A k \in (to + 1)..end : s[k] = " "

\* C21: /metrics and /tokens return data only to an authenticated user whose
\* email is listed, up to case, in ADMIN_EMAILS; with no user they answer
\* 401, with any other user 403, and an empty or unset ADMIN_EMAILS denies
\* every user
C21_AdminGate ==
    AdminServed =>
        /\ aReply.endpoint \in { "/metrics", "/tokens" }
        /\ ~aUser.present => aReply.status = 401
        /\ aUser.present /\ ~ListedIn(aUser.email, aEnv)
               => aReply.status = 403
        /\ aUser.present /\ ListedIn(aUser.email, aEnv)
               => aReply.status = 200
        /\ aReply.data <=> aReply.status = 200
        /\ ~aEnv.set \/ aEnv.value = <<>> => aReply.status # 200

\* an admin spelled in another case than the entry, which has blanks around
\* it and a neighbour, is let in on /tokens
C21_Witness ==
    /\ AdminServed
    /\ aReply.endpoint = "/tokens"
    /\ aReply.status = 200
    /\ aReply.data
    /\ aEnv.value = << " ", "A", "," >>
    /\ aUser.email.value = << "a" >>

----------------------------------------------------------------------------
(* Properties of the Paystack charge records.                              *)

\* the rows of the transaction table
Transactions == { t \in DOMAIN kTx : kTx[t].status # "none" }

RECURSIVE SumOfGrants(_)
SumOfGrants(grants) ==
    IF grants = <<>> THEN 0
    ELSE Head(grants).amount + SumOfGrants(Tail(grants))

\* the credits committed for transaction t to organization o
GrantedTo(t, o) ==
    SumOfGrants(SelectSeq(kGrants[t], LAMBDA g : g.organizationId = o))

\* C22: in every committed state the credits granted for a transaction to
\* its organization are its creditAmount if it is completed and zero
\* otherwise, whatever record calls were made for it
C22_CreditsFollowStatus ==
    \A t \in Transactions :
        GrantedTo(t, kTx[t].organizationId)
            = IF kTx[t].status = "completed" THEN kTx[t].creditAmount ELSE 0

\* credits are added for a transaction exactly when it is completed, once,
\* in the amount written to the row, and each organization holds the sum
\* of what was added for it
C22_OneGrantPerCompletion ==
    /\ \A t \in DOMAIN kTx :
         /\ Len(kGrants[t]) = IF kTx[t].status = "completed" THEN 1 ELSE 0
         /\ \A i \in 1..Len(kGrants[t]) :
              kGrants[t][i].amount = kTx[t].creditAmount
    /\ \A o \in KOrgs :
         kCredits[o] = GrantedTo("t1", o) + GrantedTo("t2", o)

\* the requests that made a record call for transaction t and were answered
RecordCallsDone(t, op) ==
    { p \in Procs : /\ kProcs[p].op = op
                    /\ kProcs[p].pc = "done"
                    /\ kProcs[p].params.transactionId = t }

\* C23: once a transaction is completed, no record call changes its
\* status, amount, creditAmount or paystackReference
C23_CompletedIsFinal ==
    [][ \A t \in DOMAIN kTx :
          kTx[t].status = "completed" => kTx'[t] = kTx[t] ]_vars

\* t1 is completed, and a recordFailedPaystackCharge call and a second
\* recordSuccessfulPaystackCharge call with other values left it alone
C23_Witness ==
    /\ kTx["t1"].status = "completed"
    /\ \E p \in RecordCallsDone("t1", "record_failed") :
         /\ ~kProcs[p].wrote
         /\ kProcs[p].params.reference # kTx["t1"].paystackReference
    /\ \E p \in RecordCallsDone("t1", "record_successful") :
         /\ ~kProcs[p].wrote
         /\ kProcs[p].params.reference # kTx["t1"].paystackReference
         /\ kProcs[p].params.creditAmount # kTx["t1"].creditAmount

\* C24: the saved-method route completes the transaction and grants
\* credits only when Paystack reports the charge as successful; a reported
\* status of failed or pending grants nothing
C24_OnlySuccessfulChargesGrant ==
    \A p \in Procs :
        /\ kProcs[p].op = "saved_topup"
        /\ kProcs[p].charge \in { "failed", "pending" }
        => /\ kTx[kProcs[p].params.transactionId].status # "completed"
           /\ kGrants[kProcs[p].params.transactionId] = <<>>

\* the signature is the HMAC of the body under the webhook secret
Authentic(signature, rawBody, config) ==
    /\ PAYSTACK_WEBHOOK_SECRET(config) # Unset
    /\ signature = createHmac(PAYSTACK_WEBHOOK_SECRET(config), rawBody)

\* C25: a webhook request whose signature is missing or is not the HMAC of
\* the body under the webhook secret is answered with 400 and changes
\* nothing, in every configuration of the two secrets
C25_UnsignedRequestsRejected ==
    \A p \in Procs :
        /\ kProcs[p].op = "webhook"
        /\ ~Authentic(kProcs[p].signature, kProcs[p].rawBody, kConfig)
        => /\ kProcs[p].pc = "done"
           /\ kProcs[p].reply = 400
           /\ ~kProcs[p].wrote

\* C26: the credits of a charge go to the organization that owns the
\* completed row, in the base amount requested when the row was created
C26_OwnerGetsRequestedAmount ==
    \A t \in Transactions :
        \A i \in 1..Len(kGrants[t]) :
            /\ kGrants[t][i].organizationId = kTx[t].organizationId
            /\ kGrants[t][i].amount = kTx[t].requested

\* the same for the signed events alone; TLC finds it violated as well, by
\* a signed event whose metadata names another organization or amount
C26_SignedEventsOnly ==
    \A t \in Transactions, p \in Procs :
        /\ kProcs[p].op = "webhook"
        /\ Authentic(kProcs[p].signature, kProcs[p].rawBody, kConfig)
        /\ kProcs[p].wrote
        /\ kProcs[p].params.transactionId = t
        => \A i \in 1..Len(kGrants[t]) :
               /\ kGrants[t][i].organizationId = kTx[t].organizationId
               /\ kGrants[t][i].amount = kTx[t].requested

\* the default payment methods of an organization
Defaults(o) ==
    { id \in DOMAIN kMethods : /\ kMethods[id].exists
                               /\ kMethods[id].organizationId = o
                               /\ kMethods[id].isDefault }

\* C27: after any set-default requests and recorded charges that save a
\* payment method, an organization has at most one default payment method
C27_AtMostOneDefault ==
    \A o \in KOrgs : Cardinality(Defaults(o)) <= 1

====
